---- MODULE Spec2Model ----
(***************************************************************************)
(* A model of the search/answer pipeline of websearch_agent:               *)
(*   search_agent/orchestrator.py         run_orchestration, merge, rerank *)
(*   search_agent/answer_orchestrator.py  orchestrate_answer_generation    *)
(*   search_agent/answer_synthesizer.py   synthesize_answer                *)
(*   search_agent/answer_evaluator.py     evaluate_answer_quality          *)
(*                                                                         *)
(* Strings that the code inspects (URLs) are sequences of tokens, so that  *)
(* lower-casing, urlparse, rstrip('/') and the `in` substring test are     *)
(* computed and not assumed.                                               *)
(***************************************************************************)
EXTENDS Integers, Sequences, FiniteSets, TLC

\* ------------------------------------------------------------------ bounds

\* Largest num_links_to_parse a run is started with.
MaxLinks == 2
\* Largest max_retries a direct call of synthesize_answer is given.
MaxRetries == 6
\* Largest number of adapter outputs handed to merge_and_deduplicate directly.
MaxOutputs == 2
\* Largest number of results in one of those outputs.
MaxResults == 2
\* Longest ranked list the URL selection is run on directly, and the largest
\* num_links_to_parse it is given.
MaxRanked == 4
MaxSelect == 3
MaxWords == 3
MaxConfigs == 3

\* ------------------------------------------------------------ sequences

RECURSIVE SeqToSet(_)
SeqToSet(s) == IF s = <<>> THEN {} ELSE {Head(s)} \cup SeqToSet(Tail(s))

\* s[a..b] as Python's slice: empty when a > b.
Slice(s, a, b) == IF a > b THEN <<>> ELSE SubSeq(s, a, b)

\* Python's `needle in haystack` for strings, token by token.
Contains(haystack, needle) ==
    \/ needle = <<>>
    \/ \E i \in 1..(Len(haystack) - Len(needle) + 1) :
           SubSeq(haystack, i, i + Len(needle) - 1) = needle

\* ----------------------------------------------------------------- URLs

\* str.lower() on one token.
LowerTok(t) ==
    CASE t = "HTTPS" -> "https"
      [] t = "A.COM" -> "a.com"
      [] t = "P"     -> "p"
      [] t = "API."  -> "api."
      [] t = "API"   -> "api"
      [] t = "Not"   -> "not"
      [] t = "Found" -> "found"
      [] t = "CAPTCHA" -> "captcha"
      [] OTHER       -> t

\* str.lower()
Lower(s) == [i \in 1..Len(s) |-> LowerTok(s[i])]

\* Index of the first token of s that is in the set stops, or Len(s)+1.
RECURSIVE FirstIn(_, _, _)
FirstIn(s, stops, i) ==
    IF i > Len(s) THEN Len(s) + 1
    ELSE IF s[i] \in stops THEN i
    ELSE FirstIn(s, stops, i + 1)

\* urllib.parse.urlparse: scheme, netloc, path, query, fragment.
urlparse(url) ==
    LET hasScheme == Len(url) >= 2 /\ url[2] = "://"
        rest      == IF hasScheme THEN Slice(url, 3, Len(url)) ELSE url
        netEnd    == IF hasScheme THEN FirstIn(rest, {"/", "?", "#"}, 1) ELSE 1
        afterNet  == Slice(rest, netEnd, Len(rest))
        pathEnd   == FirstIn(afterNet, {"?", "#"}, 1)
        afterPath == Slice(afterNet, pathEnd, Len(afterNet))
        fragAt    == FirstIn(afterPath, {"#"}, 1)
    IN  [ scheme   |-> IF hasScheme THEN <<url[1]>> ELSE <<>>,
          netloc   |-> Slice(rest, 1, netEnd - 1),
          path     |-> Slice(afterNet, 1, pathEnd - 1),
          query    |-> IF afterPath # <<>> /\ afterPath[1] = "?"
                       THEN Slice(afterPath, 2, fragAt - 1) ELSE <<>>,
          fragment |-> Slice(afterPath, fragAt + 1, Len(afterPath)) ]

\* str.rstrip('/')
RECURSIVE RStripSlash(_)
RStripSlash(s) ==
    IF s # <<>> /\ s[Len(s)] = "/" THEN RStripSlash(SubSeq(s, 1, Len(s) - 1)) ELSE s

normalize_url(url) ==
    LET parsed == urlparse(Lower(url))
        path   == RStripSlash(parsed.path)
    IN  parsed.scheme \o <<"://">> \o parsed.netloc \o path

\* The URLs that adapters report.
U_a1  == <<"https", "://", "a.com", "/", "p">>
U_a2  == <<"https", "://", "a.com", "/", "p", "/">>
U_a3  == <<"HTTPS", "://", "A.COM", "/", "P", "?", "q">>
U_a4  == <<"https", "://", "a.com", "/", "p", "#", "f">>
U_b   == <<"https", "://", "b.com", "/", "y">>
U_api == <<"https", "://", "api.", "b.com", "/", "x", "/", "/">>
Urls  == {U_a1, U_a2, U_a3, U_a4, U_b, U_api}

\* SearchResult: title, url, snippet.
SearchResults ==
    { [title |-> t, url |-> u, snippet |-> s] :
        t \in {"T", "Title"}, u \in Urls, s \in {"s1", "s2"} }

\* ------------------------------------------------- orchestrator.py: merge

\* str(result.url): an HttpUrl prints its scheme and host in lower case and an
\* empty path as "/"; path, query and fragment are printed as given.
UrlStr(result) ==
    LET parsed == urlparse(result.url)
        head   == Len(parsed.scheme) + 1 + Len(parsed.netloc)
    IN  Lower(parsed.scheme) \o <<"://">> \o Lower(parsed.netloc)
          \o (IF parsed.path = <<>> THEN <<"/">> ELSE <<>>)
          \o Slice(result.url, head + 1, Len(result.url))

\* A mutant of DictSetDefault: a later result overwrites the stored one.
DictOverwrite(unique_results, key, result) ==
    IF \E i \in 1..Len(unique_results) : unique_results[i].key = key
    THEN [i \in 1..Len(unique_results) |->
            IF unique_results[i].key = key
            THEN [key |-> key, value |-> result] ELSE unique_results[i]]
    ELSE Append(unique_results, [key |-> key, value |-> result])

\* `if normalized_url not in unique_results: unique_results[normalized_url] = result`
\* on a dict, which keeps its keys in insertion order.
DictSetDefault(unique_results, key, result) ==
    IF \E i \in 1..Len(unique_results) : unique_results[i].key = key
    THEN unique_results
    ELSE Append(unique_results, [key |-> key, value |-> result])

\* The inner loop of merge_and_deduplicate over one output's results.
RECURSIVE MergeResults(_, _)
MergeResults(unique_results, results) ==
    IF results = <<>> THEN unique_results
    ELSE MergeResults(
            DictSetDefault(unique_results, normalize_url(UrlStr(Head(results))),
                           Head(results)),
            Tail(results))

\* The outer loop of merge_and_deduplicate; an output with no results is skipped.
RECURSIVE MergeOutputs(_, _)
MergeOutputs(unique_results, module_outputs) ==
    IF module_outputs = <<>> THEN unique_results
    ELSE MergeOutputs(
            IF Head(module_outputs).results # <<>>
            THEN MergeResults(unique_results, Head(module_outputs).results)
            ELSE unique_results,
            Tail(module_outputs))

\* list(unique_results.values())
merge_and_deduplicate(module_outputs) ==
    LET unique_results == MergeOutputs(<<>>, module_outputs)
    IN  [i \in 1..Len(unique_results) |-> unique_results[i].value]

\* ------------------------------------------------ orchestrator.py: rerank

source_priority_api == 10
source_priority_unknown == 1

ApiIndicators == { <<"api.">>, <<"/", "api", "/">>, <<"search.">>, <<"engine.">> }

get_priority(result) ==
    LET url_str == Lower(UrlStr(result))
    IN  IF \E indicator \in ApiIndicators : Contains(url_str, indicator)
        THEN source_priority_api
        ELSE source_priority_unknown

\* A mutant of SortKey: the title length is not negated.
SortKeyLongerFirst(r) == <<get_priority(r), Len(r.title)>>

\* The sort key of rerank_results: (priority, -len(title)).
SortKey(r) == <<get_priority(r), 0 - Len(r.title)>>

\* A mutant of KeyLess: equal keys count as smaller, which reverses ties.
KeyLessOrEqual(k1, k2) == k1[1] < k2[1] \/ (k1[1] = k2[1] /\ k1[2] <= k2[2])

\* Python's tuple comparison k1 < k2.
KeyLess(k1, k2) == k1[1] < k2[1] \/ (k1[1] = k2[1] /\ k1[2] < k2[2])

\* Insert x into a list sorted by descending key, after every element whose key
\* is not smaller (a stable sort with reverse=True keeps the input order of ties).
RECURSIVE InsertDesc(_, _)
InsertDesc(sorted, x) ==
    IF sorted = <<>> THEN <<x>>
    ELSE IF KeyLess(SortKey(Head(sorted)), SortKey(x))
         THEN <<x>> \o sorted
         ELSE <<Head(sorted)>> \o InsertDesc(Tail(sorted), x)

RECURSIVE SortDesc(_, _)
SortDesc(sorted, rest) ==
    IF rest = <<>> THEN sorted ELSE SortDesc(InsertDesc(sorted, Head(rest)), Tail(rest))

rerank_results(results) == SortDesc(<<>>, results)

\* ------------------------------- answer_orchestrator.py: content quality

MIN_CONTENT_LENGTH == 200

\* The patterns are regular expressions of words joined by \s+; a text is its
\* length in characters and its words, so a pattern matches where its words
\* follow one another.
ERROR_PAGE_PATTERNS ==
    << <<"404", "not", "found">>,
       <<"403", "forbidden">>,
       <<"500", "internal", "server", "error">>,
       <<"access", "denied">>,
       <<"page", "not", "found">>,
       <<"content", "not", "available">>,
       <<"this", "page", "isn't", "available">>,
       <<"sorry,", "we", "couldn't", "find", "that", "page">>,
       <<"the", "requested", "url", "was", "not", "found">>,
       <<"the", "page", "you", "are", "looking", "for", "does", "not", "exist">> >>
IRRELEVANT_CONTENT_PATTERNS ==
    << <<"please", "enable", "javascript">>,
       <<"please", "enable", "cookies">>,
       <<"your", "browser", "is", "out", "of", "date">>,
       <<"captcha">>,
       <<"robot", "check">>,
       <<"cloudflare">>,
       <<"ddos", "protection">>,
       <<"security", "check">> >>

\* A mutant of ReSearchIgnoreCase: the flag re.IGNORECASE is left out.
ReSearchCaseSensitive(pattern, content) == Contains(content.words, pattern)

\* re.search(pattern, content, re.IGNORECASE)
ReSearchIgnoreCase(pattern, content) == Contains(Lower(content.words), pattern)

\* is_low_quality_content: (is_low_quality, reason)
is_low_quality_content(content) ==
    IF content.length = 0 THEN [low |-> TRUE, reason |-> "Empty content"]
    ELSE IF content.length < MIN_CONTENT_LENGTH
    THEN [low |-> TRUE, reason |-> "Content too short"]
    ELSE IF \E i \in 1..Len(ERROR_PAGE_PATTERNS) :
                ReSearchIgnoreCase(ERROR_PAGE_PATTERNS[i], content)
    THEN [low |-> TRUE, reason |-> "Detected error page pattern"]
    ELSE IF \E i \in 1..Len(IRRELEVANT_CONTENT_PATTERNS) :
                ReSearchIgnoreCase(IRRELEVANT_CONTENT_PATTERNS[i], content)
    THEN [low |-> TRUE, reason |-> "Detected irrelevant content pattern"]
    ELSE [low |-> FALSE, reason |-> ""]

\* What extract_main_content does for a URL: it raises, returns None, or
\* returns a text (possibly the empty one).
C_empty   == [length |-> 0,   words |-> <<>>]
C_short   == [length |-> 50,  words |-> <<"short">>]
C_404     == [length |-> 300, words |-> <<"404", "Not", "Found">>]
C_captcha == [length |-> 200, words |-> <<"solve", "the", "CAPTCHA">>]
C_good    == [length |-> 250, words |-> <<"page", "found">>]
Texts     == {C_empty, C_short, C_404, C_good}
FetchedTexts == {C_empty, C_short, C_good}
FetchRaised  == [kind |-> "exception", content |-> C_empty]
FetchNone    == [kind |-> "None", content |-> C_empty]
FetchPending == [kind |-> "pending", content |-> C_empty]
FetchText(c) == [kind |-> "str", content |-> c]
FetchOutcomes == {FetchRaised, FetchNone} \cup { FetchText(c) : c \in FetchedTexts }

\* --------------------------------------------------- the search adapters

selenium_search   == <<"selenium", "_search">>
playwright_search == <<"playwright", "_search">>
brave_api_search  == <<"brave", "_api", "_search">>
google_cse_search == <<"google", "_cse", "_search">>
httpx_search      == <<"httpx", "_search">>

\* run_orchestration's list of modules, in its order.
AllModules ==
    << selenium_search, playwright_search, brave_api_search,
       google_cse_search, httpx_search >>

\* inspect.iscoroutinefunction(search): only selenium_search.search is a plain def.
IsCoroutineFunction(m) == m # selenium_search

\* Whether search(query, config) binds: the searches of playwright_search,
\* google_cse_search and httpx_search take the query alone.
AcceptsConfig(m) == m \in {selenium_search, brave_api_search}

\* What an adapter's search does when it runs: it raises, returns something that
\* is no SearchModuleOutput, or returns a SearchModuleOutput with these results.
L1 == << [title |-> "T",     url |-> U_a1,  snippet |-> "s1"],
         [title |-> "Title", url |-> U_b,   snippet |-> "s1"] >>
L2 == << [title |-> "Title", url |-> U_a3,  snippet |-> "s2"],
         [title |-> "T",     url |-> U_api, snippet |-> "s2"] >>
ResultLists == { <<>>, L1, L2 }
Raised      == [kind |-> "exception", results |-> <<>>]
NotAnOutput == [kind |-> "other", results |-> <<>>]
Output(l)   == [kind |-> "SearchModuleOutput", results |-> l]
Pending     == [kind |-> "pending", results |-> <<>>]
AdapterOutcomes == {Raised, NotAnOutput} \cup { Output(l) : l \in ResultLists }

\* ------------------------------------------------------- Configuration

\* config.search.provider after split(',') and strip(); "all" is the default.
P_all         == << <<"all">> >>
P_sel_brave   == << <<"selenium">>, <<"brave">> >>
P_brave_googl == << <<"brave">>, <<"google">> >>
Providers     == {P_sel_brave, P_brave_googl}

NoConfig == [provider |-> P_all, evaluation |-> TRUE, retry_count |-> 0, given |-> FALSE]
Configs  ==
    {NoConfig} \cup
    [provider : Providers, evaluation : BOOLEAN, retry_count : {1}, given : {TRUE}]

VARIABLES
    pc,                 \* where the run is
    config,             \* the Configuration passed down, or NoConfig
    num_links_to_parse,
    available_modules,  \* run_orchestration: the modules left by the provider filter
    module_idx,         \* run_orchestration: position of the loading loop
    tasks,              \* run_orchestration: modules whose awaitable was created
    task_result,        \* outcome of each task, Pending until it completes
    completed,          \* task indices in the order the tasks completed
    search_output,      \* what run_orchestration returned or raised
    metadata,           \* orchestrate_answer_generation: counts and errors
    selected_urls,
    fetch_result,       \* outcome of each extraction task, FetchPending until done
    fetch_completed,    \* extraction task indices in completion order
    extracted_contents,
    filtered_contents,
    source_urls,
    synthesized_answer,
    evaluation_results,
    result,             \* what orchestrate_answer_generation returned
    fetch_calls,        \* number of extract_main_content calls made
    synth_calls,        \* number of LLM calls made by synthesize_answer
    eval_calls,         \* number of LLM calls made by evaluate_answer_quality
    max_retries,        \* the LLM-calling function in progress: its max_retries,
    retry_count,        \*   its retry_count,
    sleeps,             \*   and the delays it has slept, in order
    last_outcome,       \*   what its latest LLM call did
    transient_errors,   \*   and how many of its calls met a rate limit or a lost connection
    synth_ret,          \* what synthesize_answer returned or raised
    call_args,          \* a function called on its own: its arguments
    call_ret            \*   and what it returned

search_vars == <<available_modules, module_idx, tasks, task_result, completed, search_output>>
extract_vars == <<selected_urls, fetch_result, fetch_completed, extracted_contents,
                  filtered_contents, source_urls, fetch_calls>>
answer_vars == <<synthesized_answer, evaluation_results, synth_calls, eval_calls>>
llm_vars == <<max_retries, retry_count, sleeps, last_outcome, transient_errors, synth_ret>>
direct_vars == <<call_args, call_ret>>
input_vars == <<config, num_links_to_parse, direct_vars>>
vars == <<pc, input_vars, search_vars, metadata, extract_vars, answer_vars, llm_vars,
          result>>

\* A score as the evaluation carries it: a number (in tenths), or what an LLM's
\* JSON may hold in its place.
Num(n)   == [t |-> "number", v |-> n]
Null     == [t |-> "null", v |-> 0]
NonNum   == [t |-> "string", v |-> 0]
Missing  == [t |-> "missing", v |-> 0]

\* evaluation_results = {}
EmptyDict ==
    [factual_consistency_score |-> Missing, relevance_score |-> Missing,
     completeness_score |-> Missing, conciseness_score |-> Missing,
     llm_feedback |-> "missing"]

NoResult == [kind |-> "none"]
NoReturn == [kind |-> "none", value |-> ""]
NoOutcome == [kind |-> "none"]

\* The default of the max_retries parameter of synthesize_answer and of
\* evaluate_answer_quality.
DefaultMaxRetries == 3

NoSearchOutput == [kind |-> "none", results |-> <<>>]

\* The state in which nothing has run yet.
NothingRun ==
    /\ available_modules = <<>>
    /\ module_idx = 1
    /\ tasks = <<>>
    /\ task_result = <<>>
    /\ completed = <<>>
    /\ search_output = NoSearchOutput
    \* a stage's time is 0 as initialised and 1 once an elapsed time is stored
    /\ metadata = [total_urls_found |-> 0, urls_selected |-> 0,
                   extraction_success_count |-> 0, extraction_failure_count |-> 0,
                   low_quality_content_count |-> 0,
                   search_execution_time |-> 0, content_extraction_time |-> 0,
                   answer_synthesis_time |-> 0, answer_evaluation_time |-> 0,
                   errors |-> <<>>]
    /\ selected_urls = <<>>
    /\ fetch_result = <<>>
    /\ fetch_completed = <<>>
    /\ extracted_contents = <<>>
    /\ filtered_contents = <<>>
    /\ source_urls = <<>>
    /\ synthesized_answer = ""
    /\ evaluation_results = EmptyDict
    /\ result = NoResult
    /\ fetch_calls = 0
    /\ synth_calls = 0
    /\ eval_calls = 0
    /\ retry_count = 0
    /\ sleeps = <<>>
    /\ last_outcome = NoOutcome
    /\ transient_errors = 0
    /\ synth_ret = NoReturn
    /\ call_ret = <<>>

\* orchestrate_answer_generation(query, num_links_to_parse, config) is called.
Init ==
    /\ pc = "start"
    /\ config \in Configs
    /\ num_links_to_parse \in 1..MaxLinks
    /\ max_retries = DefaultMaxRetries
    /\ call_args = <<>>
    /\ NothingRun

\* ------------------------------------------------ run_orchestration

\* [m for m in available_modules if any(p in m for p in selected_providers)]
RECURSIVE FilterModules(_, _)
FilterModules(modules, selected_providers) ==
    IF modules = <<>> THEN <<>>
    ELSE (IF \E i \in 1..Len(selected_providers) :
                 Contains(Head(modules), selected_providers[i])
          THEN <<Head(modules)>> ELSE <<>>)
         \o FilterModules(Tail(modules), selected_providers)

\* Lines 42-54: the module list, filtered when a configuration names providers.
SelectedModules(cfg) ==
    IF cfg.given /\ cfg.provider # P_all
    THEN FilterModules(AllModules, cfg.provider)
    ELSE AllModules

\* orchestrate_answer_generation awaits run_orchestration (line 119), which
\* first filters the module list.
StartSearch ==
    /\ pc = "start"
    /\ available_modules' = SelectedModules(config)
    /\ module_idx' = 1
    /\ pc' = "load"
    /\ UNCHANGED <<input_vars, tasks, task_result, completed,
                   search_output,
                   metadata, extract_vars, answer_vars, llm_vars, result>>

\* importlib.import_module or getattr fails: the module is skipped (lines 74-76).
ImportFails ==
    /\ pc = "load"
    /\ module_idx <= Len(available_modules)
    /\ module_idx' = module_idx + 1
    /\ UNCHANGED <<pc, input_vars, available_modules, tasks,
                   task_result, completed, search_output,
                   metadata, extract_vars, answer_vars, llm_vars, result>>

\* The awaitable is created (lines 67-72): a coroutine function is called with
\* (query, config), a plain function is wrapped by asyncio.to_thread.
CreateTask ==
    /\ pc = "load"
    /\ module_idx <= Len(available_modules)
    /\ LET m == available_modules[module_idx] IN
         /\ ~IsCoroutineFunction(m) \/ AcceptsConfig(m)
         /\ tasks' = Append(tasks, m)
         /\ task_result' = Append(task_result, Pending)
    /\ module_idx' = module_idx + 1
    /\ UNCHANGED <<pc, input_vars, available_modules,
                   completed, search_output,
                   metadata, extract_vars, answer_vars, llm_vars, result>>

\* search_function(query, config) on a coroutine function that takes the query
\* alone raises TypeError at the call (line 69); only ImportError and
\* AttributeError are caught there, so run_orchestration raises it.
CallRaisesTypeError ==
    /\ pc = "load"
    /\ module_idx <= Len(available_modules)
    /\ LET m == available_modules[module_idx] IN
         IsCoroutineFunction(m) /\ ~AcceptsConfig(m)
    /\ search_output' = [kind |-> "TypeError", results |-> <<>>]
    /\ pc' = "search_returned"
    /\ UNCHANGED <<input_vars, available_modules, module_idx,
                   tasks, task_result, completed,
                   metadata, extract_vars, answer_vars, llm_vars, result>>

\* `if not tasks: raise RuntimeError(...)` (lines 78-79).
NoTasks ==
    /\ pc = "load"
    /\ module_idx > Len(available_modules)
    /\ tasks = <<>>
    /\ search_output' = [kind |-> "RuntimeError: No search modules could be loaded",
                         results |-> <<>>]
    /\ pc' = "search_returned"
    /\ UNCHANGED <<input_vars, available_modules, module_idx,
                   tasks, task_result, completed,
                   metadata, extract_vars, answer_vars, llm_vars, result>>

\* asyncio.gather(*tasks, return_exceptions=True) starts every task (line 85).
StartGather ==
    /\ pc = "load"
    /\ module_idx > Len(available_modules)
    /\ tasks # <<>>
    /\ pc' = "gather"
    /\ UNCHANGED <<input_vars, search_vars,
                   metadata, extract_vars, answer_vars, llm_vars, result>>

\* What the task of module m may yield: a plain function that takes the query
\* alone fails inside its thread, any other runs its search.
TaskOutcomes(m) == IF AcceptsConfig(m) THEN AdapterOutcomes ELSE {Raised}

\* One task completes; the tasks complete in any order.
TaskCompletes(i) ==
    /\ pc = "gather"
    /\ task_result[i] = Pending
    /\ \E o \in TaskOutcomes(tasks[i]) :
         task_result' = [task_result EXCEPT ![i] = o]
    /\ completed' = Append(completed, i)
    /\ UNCHANGED <<pc, input_vars, available_modules,
                   module_idx, tasks, search_output,
                   metadata, extract_vars, answer_vars, llm_vars, result>>

\* A mutant of GatherResults: the results in the order the tasks completed.
GatherInCompletionOrder(outcomes, order) ==
    [i \in 1..Len(outcomes) |-> outcomes[order[i]]]

\* The list asyncio.gather returns: one entry per awaitable, in the order the
\* awaitables were passed.
GatherResults(outcomes, order) == [i \in 1..Len(outcomes) |-> outcomes[i]]

\* Lines 88-100: the results that are SearchModuleOutputs, in the list's order.
RECURSIVE SuccessfulResults(_)
SuccessfulResults(results) ==
    IF results = <<>> THEN <<>>
    ELSE (IF Head(results).kind = "SearchModuleOutput" THEN <<Head(results)>> ELSE <<>>)
         \o SuccessfulResults(Tail(results))

\* gather returns; lines 87-122 run without suspending.
GatherReturns ==
    /\ pc = "gather"
    /\ \A i \in 1..Len(tasks) : task_result[i] # Pending
    /\ LET results == GatherResults(task_result, completed)
           successful_results == SuccessfulResults(results)
       IN  search_output' =
             IF successful_results = <<>>
             THEN [kind |-> "RuntimeError: All search modules failed to return results",
                   results |-> <<>>]
             ELSE [kind |-> "SearchModuleOutput",
                   results |-> rerank_results(merge_and_deduplicate(successful_results))]
    /\ pc' = "search_returned"
    /\ UNCHANGED <<input_vars, available_modules, module_idx,
                   tasks, task_result, completed,
                   metadata, extract_vars, answer_vars, llm_vars, result>>

run_orchestration ==
    \/ ImportFails
    \/ CreateTask
    \/ CallRaisesTypeError
    \/ NoTasks
    \/ StartGather
    \/ \E i \in 1..Len(tasks) : TaskCompletes(i)
    \/ GatherReturns

\* ------------------------------------- orchestrate_answer_generation

Err(msg, about) == [msg |-> msg, about |-> about]

\* sum(1 for u in selected_urls if domain in u)
RECURSIVE CountContaining(_, _)
CountContaining(urls, domain) ==
    IF urls = <<>> THEN 0
    ELSE (IF Contains(Head(urls), domain) THEN 1 ELSE 0)
         + CountContaining(Tail(urls), domain)

\* The selection loop (lines 127-153) over the results not yet looked at.
RECURSIVE SelectUrls(_, _, _, _)
SelectUrls(results, selected, seen_domains, n) ==
    IF results = <<>> THEN selected
    ELSE LET url_str == UrlStr(Head(results))
             domain  == urlparse(url_str).netloc
         IN  IF url_str \in SeqToSet(selected)
             THEN SelectUrls(Tail(results), selected, seen_domains, n)
             ELSE IF domain \in seen_domains /\ CountContaining(selected, domain) >= 2
             THEN SelectUrls(Tail(results), selected, seen_domains, n)
             ELSE IF Len(selected) + 1 >= n
             THEN Append(selected, url_str)
             ELSE SelectUrls(Tail(results), Append(selected, url_str),
                             seen_domains \cup {domain}, n)

\* run_orchestration is left: its local variables are gone.
SearchFrameDropped ==
    /\ available_modules' = <<>>
    /\ module_idx' = 1
    /\ tasks' = <<>>
    /\ task_result' = <<>>
    /\ completed' = <<>>

\* run_orchestration returned (lines 120-164): the URLs are selected and one
\* extraction task per URL is created and awaited together.
SearchReturned ==
    /\ pc = "search_returned"
    /\ search_output.kind = "SearchModuleOutput"
    /\ LET urls == SelectUrls(search_output.results, <<>>, {}, num_links_to_parse) IN
         /\ selected_urls' = urls
         /\ metadata' = [metadata EXCEPT
                           !.search_execution_time = 1,
                           !.total_urls_found = Len(search_output.results),
                           !.urls_selected = Len(urls)]
         /\ fetch_result' = [i \in 1..Len(urls) |-> FetchPending]
         /\ fetch_calls' = Len(urls)
    /\ fetch_completed' = <<>>
    /\ pc' = "extract"
    /\ SearchFrameDropped
    /\ UNCHANGED <<input_vars, search_output, extracted_contents, filtered_contents,
                   source_urls, answer_vars, llm_vars, result>>

\* A mutant of SearchRaised: the handler leaves the answer as it was.
SearchRaisedAnswerUnset ==
    /\ pc = "search_returned"
    /\ search_output.kind # "SearchModuleOutput"
    /\ metadata' = [metadata EXCEPT
                      !.errors = Append(@, Err("Unexpected error", search_output.kind))]
    /\ pc' = "construct"
    /\ SearchFrameDropped
    /\ UNCHANGED <<input_vars, search_output, extract_vars, answer_vars, llm_vars,
                   result>>

\* run_orchestration raised: RuntimeError and TypeError are no SearchAgentError,
\* so the `except Exception` clause handles them (lines 262-265).
SearchRaised ==
    /\ pc = "search_returned"
    /\ search_output.kind # "SearchModuleOutput"
    /\ metadata' = [metadata EXCEPT
                      !.errors = Append(@, Err("Unexpected error", search_output.kind))]
    /\ synthesized_answer' = "I encountered an unexpected error while trying to answer your question. Please try again later."
    /\ pc' = "construct"
    /\ SearchFrameDropped
    /\ UNCHANGED <<input_vars, search_output, extract_vars, evaluation_results,
                   synth_calls, eval_calls, llm_vars, result>>

\* One extraction task completes with whatever extract_main_content does.
FetchCompletes(i) ==
    /\ pc = "extract"
    /\ fetch_result[i] = FetchPending
    /\ \E o \in FetchOutcomes : fetch_result' = [fetch_result EXCEPT ![i] = o]
    /\ fetch_completed' = Append(fetch_completed, i)
    /\ UNCHANGED <<pc, input_vars, search_vars, metadata, selected_urls,
                   extracted_contents, filtered_contents, source_urls, fetch_calls,
                   answer_vars, llm_vars, result>>

\* A mutant of ProcessExtracted: the first exception ends the loop, as if it
\* had been raised by the gather.
RECURSIVE ProcessExtractedStopsAtException(_, _, _, _)
ProcessExtractedStopsAtException(i, raw, urls, acc) ==
    IF i > Len(raw) THEN acc
    ELSE LET content == raw[i] IN
         IF content.kind = "exception"
         THEN [acc EXCEPT
                 !.metadata.extraction_failure_count = @ + 1,
                 !.metadata.errors = Append(@, Err("Extraction error for", urls[i]))]
         ELSE ProcessExtractedStopsAtException(i + 1, raw, urls,
           IF content.kind = "str" /\ content.content.length > 0
           THEN IF is_low_quality_content(content.content).low
                THEN [acc EXCEPT
                        !.metadata.low_quality_content_count = @ + 1,
                        !.metadata.errors =
                            Append(@, Err("Low quality content from", urls[i]))]
                ELSE [acc EXCEPT
                        !.extracted_contents = Append(@, content.content),
                        !.filtered_contents = Append(@, content.content),
                        !.source_urls = Append(@, urls[i]),
                        !.metadata.extraction_success_count = @ + 1]
           ELSE [acc EXCEPT !.metadata.extraction_failure_count = @ + 1])

\* The loop of lines 169-190 from index i on; acc holds extracted_contents,
\* filtered_contents, source_urls and metadata.
RECURSIVE ProcessExtracted(_, _, _, _)
ProcessExtracted(i, raw, urls, acc) ==
    IF i > Len(raw) THEN acc
    ELSE LET content == raw[i] IN
         ProcessExtracted(i + 1, raw, urls,
           IF content.kind = "exception"
           THEN [acc EXCEPT
                   !.metadata.extraction_failure_count = @ + 1,
                   !.metadata.errors = Append(@, Err("Extraction error for", urls[i]))]
           ELSE IF content.kind = "str" /\ content.content.length > 0
           THEN IF is_low_quality_content(content.content).low
                THEN [acc EXCEPT
                        !.metadata.low_quality_content_count = @ + 1,
                        !.metadata.errors =
                            Append(@, Err("Low quality content from", urls[i]))]
                ELSE [acc EXCEPT
                        !.extracted_contents = Append(@, content.content),
                        !.filtered_contents = Append(@, content.content),
                        !.source_urls = Append(@, urls[i]),
                        !.metadata.extraction_success_count = @ + 1]
           ELSE [acc EXCEPT !.metadata.extraction_failure_count = @ + 1])

NoContentAnswer == "I couldn't find any relevant information to answer your question. Please try rephrasing your query or providing more specific details."

\* A mutant of NoContentResult: the evaluation results are left as initialised.
NoContentResultUnscored(md) ==
    [kind |-> "no_content",
     synthesized_answer |-> NoContentAnswer,
     source_urls |-> <<>>,
     extracted_contents |-> <<>>,
     evaluation_results |-> EmptyDict,
     metadata |-> md]

\* The dictionary returned at lines 206-221.
NoContentResult(md) ==
    [kind |-> "no_content",
     synthesized_answer |-> NoContentAnswer,
     source_urls |-> <<>>,
     extracted_contents |-> <<>>,
     evaluation_results |->
        [factual_consistency_score |-> Num(0), relevance_score |-> Num(0),
         completeness_score |-> Num(0), conciseness_score |-> Num(0),
         llm_feedback |-> "No content could be extracted from search results."],
     metadata |-> md]

\* Lines 195-205: what is handed on when nothing passed the quality check.
Fallback(acc) ==
    IF acc.filtered_contents # <<>> THEN acc
    ELSE IF acc.extracted_contents # <<>>
    THEN [acc EXCEPT
            !.filtered_contents = acc.extracted_contents,
            !.metadata.errors =
                Append(@, Err("Using low quality content as fallback", <<>>))]
    ELSE [acc EXCEPT
            !.metadata.errors =
                Append(@, Err("No content could be extracted from the selected search results.", <<>>))]

\* The extraction gather returns (lines 165-221): the texts are classified;
\* with nothing to synthesize from, the "no content" result is returned.
ExtractionReturns ==
    /\ pc = "extract"
    /\ \A i \in 1..Len(fetch_result) : fetch_result[i] # FetchPending
    /\ LET raw == GatherResults(fetch_result, fetch_completed)
           acc == Fallback(ProcessExtracted(1, raw, selected_urls,
                     [extracted_contents |-> extracted_contents,
                      filtered_contents |-> filtered_contents,
                      source_urls |-> source_urls,
                      metadata |-> [metadata EXCEPT
                                      !.content_extraction_time = 1]]))
       IN  /\ extracted_contents' = acc.extracted_contents
           /\ filtered_contents' = acc.filtered_contents
           /\ source_urls' = acc.source_urls
           /\ metadata' = acc.metadata
           /\ IF acc.filtered_contents = <<>>
              THEN /\ result' = NoContentResult(acc.metadata)
                   /\ pc' = "done"
              ELSE /\ result' = result
                   /\ pc' = "synthesize"
    /\ UNCHANGED <<input_vars, search_vars, selected_urls, fetch_result,
                   fetch_completed, fetch_calls, answer_vars, llm_vars>>


\* ----------------------------------------------------- the LLM client

\* The exceptions of a chat completion call. msg5 says whether str(e) starts
\* with "5". In the openai package RateLimitError and AuthenticationError derive
\* from APIStatusError, and APIStatusError and APIConnectionError from APIError.
ErrorClasses ==
    {"RateLimitError", "APIConnectionError", "AuthenticationError",
     "APIStatusError", "APIError", "Exception"}
LLMErrors == [kind : {"error"}, cls : ErrorClasses, msg5 : BOOLEAN]

IsInstance(cls, base) ==
    \/ base = "Exception"
    \/ cls = base
    \/ base = "APIError" /\ cls \in {"RateLimitError", "APIConnectionError",
                                      "AuthenticationError", "APIStatusError"}
    \/ base = "APIStatusError" /\ cls \in {"RateLimitError", "AuthenticationError"}

\* The except clauses of the retry loop, in the order they are written.
ExceptClauses ==
    <<"RateLimitError", "APIConnectionError", "APIError", "AuthenticationError",
      "Exception">>

\* The clause that handles an exception: the first one it is an instance of.
Handler(cls) ==
    LET i == CHOOSE i \in 1..Len(ExceptClauses) :
                 /\ IsInstance(cls, ExceptClauses[i])
                 /\ \A j \in 1..(i - 1) : ~IsInstance(cls, ExceptClauses[j])
    IN  ExceptClauses[i]

RECURSIVE Pow2(_)
Pow2(n) == IF n = 0 THEN 1 ELSE 2 * Pow2(n - 1)

Min(a, b) == IF a < b THEN a ELSE b

base_delay == 1
max_delay == 16

\* A mutant of BackoffDelay: the delay is not capped.
BackoffDelayUncapped(retries) == base_delay * Pow2(retries)

\* min(max_delay, base_delay * (2 ** retry_count))
BackoffDelay(retries) == Min(max_delay, base_delay * Pow2(retries))

\* A mutant of ShouldRetry: the last permitted retry is not made.
ShouldRetryOneLess(clause, err, retries, limit) ==
    /\ clause \in {"RateLimitError", "APIConnectionError"}
       \/ (clause = "APIError" /\ err.msg5)
    /\ retries + 1 < limit

\* A mutant of ShouldRetry: an error at the last permitted attempt is retried
\* as well.
ShouldRetryAtLimit(clause, err, retries, limit) ==
    /\ clause \in {"RateLimitError", "APIConnectionError"}
       \/ (clause = "APIError" /\ err.msg5)
    /\ retries <= limit

\* Whether the clause that handles err sleeps and retries (lines 101-142).
ShouldRetry(clause, err, retries, limit) ==
    /\ clause \in {"RateLimitError", "APIConnectionError"}
       \/ (clause = "APIError" /\ err.msg5)
    /\ retries < limit

\* ------------------------------------------------- synthesize_answer

AnswerLong  == "Paris is the capital of France, as every one of the provided snippets states."
AnswerShort == "Paris."

\* str.strip() on the message contents the model is given.
Strip(content) ==
    CASE content = "  Paris.  " -> AnswerShort
      [] content = "   "        -> ""
      [] OTHER                  -> content

\* response.choices[0].message.content: a string, or None.
SynthContents == {AnswerLong, "  Paris.  ", "   ", ""}
SynthResponses ==
    [kind : {"response"}, content : SynthContents] \cup {[kind |-> "response_none"]}

\* What is kept of the outcome of an evaluation call: an error as it is, of a
\* response only that it was one (evaluation_results holds what was read of it).
Seen(o) == IF o.kind = "error" THEN o ELSE [kind |-> "response"]

\* openai.RateLimitError and openai.APIConnectionError.
IsTransient(o) ==
    o.kind = "error" /\ o.cls \in {"RateLimitError", "APIConnectionError"}

\* orchestrate_answer_generation calls synthesize_answer(query, filtered_contents,
\* config=config) (line 226): max_retries has its default.
CallSynthesize ==
    /\ pc = "synthesize"
    /\ max_retries' = DefaultMaxRetries
    /\ pc' = "synth_enter"
    \* search_output and extracted_contents_raw are not read again
    /\ search_output' = NoSearchOutput
    /\ fetch_result' = <<>>
    /\ fetch_completed' = <<>>
    /\ UNCHANGED <<input_vars, available_modules, module_idx, tasks, task_result,
                   completed, metadata, selected_urls, extracted_contents,
                   filtered_contents, source_urls, fetch_calls, answer_vars,
                   retry_count, sleeps, last_outcome, transient_errors, synth_ret, result>>

\* `if config and hasattr(config, 'advanced') and config.advanced.retry_count:
\*      max_retries = config.advanced.retry_count`
ConfiguredRetries(cfg, default) ==
    IF cfg.given /\ cfg.retry_count # 0 THEN cfg.retry_count ELSE default

\* Lines 35-82: the client is configured, or get_llm_client raises for want of
\* an API key; then the retry parameters are initialised.
SynthEnter ==
    /\ pc = "synth_enter"
    /\ \/ /\ synth_ret' = [kind |-> "raise",
                           value |-> "Failed to configure LLM client for answer synthesis"]
          /\ pc' = "synth_returned"
          /\ UNCHANGED <<max_retries, retry_count, sleeps, last_outcome,
                           transient_errors>>
       \/ /\ max_retries' = ConfiguredRetries(config, max_retries)
          /\ retry_count' = 0
          /\ sleeps' = <<>>
          /\ last_outcome' = NoOutcome
          /\ transient_errors' = 0
          /\ pc' = "synth_loop"
          /\ UNCHANGED synth_ret
    /\ UNCHANGED <<input_vars, search_vars, metadata, extract_vars, answer_vars,
                   result>>

\* One turn of `while retry_count <= max_retries` (lines 82-145): one LLM call
\* and the handling of what it does.
SynthLoop ==
    /\ pc = "synth_loop"
    /\ IF retry_count > max_retries
       THEN /\ synth_ret' = [kind |-> "return_none", value |-> ""]
            /\ pc' = "synth_returned"
            /\ UNCHANGED <<synth_calls, retry_count, sleeps, last_outcome,
                           transient_errors>>
       ELSE /\ synth_calls' = synth_calls + 1
            /\ \E o \in SynthResponses \cup LLMErrors :
                 /\ last_outcome' = o
                 /\ transient_errors' = transient_errors + (IF IsTransient(o) THEN 1 ELSE 0)
                 /\ IF o.kind = "response"
                    THEN /\ synth_ret' = [kind |-> "return", value |-> Strip(o.content)]
                         /\ pc' = "synth_returned"
                         /\ UNCHANGED <<retry_count, sleeps>>
                    ELSE IF o.kind = "response_none"
                    THEN /\ synth_ret' = [kind |-> "raise",
                                          value |-> "LLM answer synthesis failed"]
                         /\ pc' = "synth_returned"
                         /\ UNCHANGED <<retry_count, sleeps>>
                    ELSE LET clause == Handler(o.cls) IN
                         IF ShouldRetry(clause, o, retry_count, max_retries)
                         THEN /\ sleeps' = Append(sleeps, BackoffDelay(retry_count))
                              /\ retry_count' = retry_count + 1
                              /\ UNCHANGED <<pc, synth_ret>>
                         ELSE /\ synth_ret' =
                                   [kind |-> "raise",
                                    value |->
                                      CASE clause = "RateLimitError" ->
                                             "LLM rate limit exceeded"
                                        [] clause = "APIConnectionError" ->
                                             "LLM API connection failed"
                                        [] clause = "APIError" -> "LLM API error"
                                        [] clause = "AuthenticationError" ->
                                             "LLM authentication failed"
                                        [] OTHER -> "LLM answer synthesis failed"]
                              /\ pc' = "synth_returned"
                              /\ UNCHANGED <<retry_count, sleeps>>
    /\ UNCHANGED <<input_vars, search_vars, metadata, extract_vars,
                      synthesized_answer, evaluation_results, eval_calls, max_retries,
                      result>>

synthesize_answer == SynthEnter \/ SynthLoop

EmptyAnswerMessage == "I couldn't generate a good answer to your question based on the information I found. Please try rephrasing your query."

\* synthesize_answer returned (lines 227-244): an empty answer is replaced by
\* a message, a short one is noted, and evaluate_answer_quality is called.
SynthReturned ==
    /\ pc = "synth_returned"
    /\ synth_ret.kind \in {"return", "return_none"}
    /\ synthesized_answer' =
         IF synth_ret.value = "" THEN EmptyAnswerMessage ELSE synth_ret.value
    /\ metadata' =
         IF synth_ret.value = ""
         THEN [metadata EXCEPT
                 !.answer_synthesis_time = 1,
                 !.errors = Append(@, Err("LLM returned empty answer", <<>>))]
         ELSE IF Len(synth_ret.value) < 50
         THEN [metadata EXCEPT
                 !.answer_synthesis_time = 1,
                 !.errors = Append(@, Err("LLM returned very short answer", <<>>))]
         ELSE [metadata EXCEPT !.answer_synthesis_time = 1]
    /\ max_retries' = DefaultMaxRetries
    /\ retry_count' = 0
    /\ sleeps' = <<>>
    /\ last_outcome' = NoOutcome
    /\ transient_errors' = 0
    /\ pc' = "eval_enter"
    /\ UNCHANGED <<input_vars, search_vars, extract_vars, evaluation_results,
                   synth_calls, eval_calls, synth_ret, result>>

\* A mutant of SynthRaised: the error is noted and the evaluation is run all
\* the same.
SynthRaisedThenEvaluates ==
    /\ pc = "synth_returned"
    /\ synth_ret.kind = "raise"
    /\ metadata' = [metadata EXCEPT
                      !.errors = Append(@, Err("Answer orchestration error",
                                               synth_ret.value))]
    /\ synthesized_answer' = "I encountered an error while trying to answer your question"
    /\ retry_count' = 0
    /\ sleeps' = <<>>
    /\ last_outcome' = NoOutcome
    /\ transient_errors' = 0
    /\ pc' = "eval_enter"
    /\ UNCHANGED <<input_vars, search_vars, extract_vars, evaluation_results,
                   synth_calls, eval_calls, max_retries, synth_ret, result>>

\* synthesize_answer raised SearchAgentError: lines 258-261.
SynthRaised ==
    /\ pc = "synth_returned"
    /\ synth_ret.kind = "raise"
    /\ metadata' = [metadata EXCEPT
                      !.errors = Append(@, Err("Answer orchestration error",
                                               synth_ret.value))]
    /\ synthesized_answer' = "I encountered an error while trying to answer your question"
    /\ retry_count' = 0
    /\ sleeps' = <<>>
    /\ last_outcome' = NoOutcome
    /\ transient_errors' = 0
    /\ pc' = "construct"
    /\ UNCHANGED <<input_vars, search_vars, extract_vars, evaluation_results,
                   synth_calls, eval_calls, max_retries, synth_ret, result>>


\* -------------------------------------------- evaluate_answer_quality

ScoreFields ==
    {"factual_consistency_score", "relevance_score", "completeness_score",
     "conciseness_score"}

\* What the evaluation LLM may write for a score: a number in or out of [0,1]
\* (in tenths), null, something that is no number, or nothing.
ScoreValues == {Missing, Null, NonNum, Num(2), Num(9), Num(15)}

\* The JSON objects the evaluation LLM answers with: the well-formed one, every
\* object that departs from it in one score, and the empty object.
GoodObject ==
    [f \in ScoreFields \cup {"llm_feedback"} |->
        IF f = "llm_feedback" THEN "The answer is accurate." ELSE Num(9)]
EvalObjects ==
    { [GoodObject EXCEPT ![f] = v] : f \in ScoreFields, v \in ScoreValues }
    \cup { [GoodObject EXCEPT !["llm_feedback"] = "None"] }
    \cup { [f \in ScoreFields \cup {"llm_feedback"} |->
                IF f = "llm_feedback" THEN "None" ELSE Missing] }

\* response.choices[0].message.content of the evaluation call:
\*   json     a JSON object
\*   array    valid JSON that is no object
\*   fenced   no valid JSON as a whole, with a fenced block holding a JSON object
\*   badfence no valid JSON as a whole, with a fenced block holding braces that
\*            do not parse
\*   text     no JSON and no fenced block
\*   none     no content (None)
EvalResponses ==
    [kind : {"response"}, form : {"json"}, object : EvalObjects]
    \cup [kind : {"response"}, form : {"fenced"}, object : {GoodObject}]
    \cup [kind : {"response"}, form : {"array", "badfence", "text", "none"},
          object : {GoodObject}]

\* The result dictionary of evaluate_answer_quality as first built (lines 34-41).
InitialEvaluation ==
    [factual_consistency_score |-> Num(0), relevance_score |-> Num(0),
     completeness_score |-> Num(0), conciseness_score |-> Num(0),
     llm_feedback |-> "None"]

\* parsed_llm_output.get(field, 0.0)
GetScore(object, field) == IF object[field] = Missing THEN Num(0) ELSE object[field]

\* Lines 135-139: the parsed object's fields are taken over.
TakeScores(ev, object) ==
    [ev EXCEPT
       !.factual_consistency_score = GetScore(object, "factual_consistency_score"),
       !.relevance_score = GetScore(object, "relevance_score"),
       !.completeness_score = GetScore(object, "completeness_score"),
       !.conciseness_score = GetScore(object, "conciseness_score"),
       !.llm_feedback = object["llm_feedback"]]

\* A mutant of ParseEvaluation: the fenced block is not looked for.
ParseEvaluationJsonOnly(ev, o) ==
    CASE o.form = "json" -> TakeScores(ev, o.object)
      [] o.form \in {"fenced", "badfence", "text"} ->
           [ev EXCEPT !.llm_feedback =
              "Error parsing LLM evaluation output: No valid JSON found"]
      [] OTHER -> [ev EXCEPT !.llm_feedback = "LLM evaluation failed"]

\* Lines 111-142: the evaluation after the parse of one response.
ParseEvaluation(ev, o) ==
    CASE o.form \in {"json", "fenced"} -> TakeScores(ev, o.object)
      [] o.form = "badfence" ->
           [ev EXCEPT !.llm_feedback = "Error parsing LLM evaluation output"]
      [] o.form = "text" ->
           [ev EXCEPT !.llm_feedback =
              "Error parsing LLM evaluation output: No valid JSON found"]
      [] OTHER -> [ev EXCEPT !.llm_feedback = "LLM evaluation failed"]

\* A mutant of EvalEnter: with evaluation switched off only the LLM evaluation
\* is left out, the embedding similarity is still computed.
EvalEnterSkipsLLMOnly ==
    /\ pc = "eval_enter"
    /\ IF config.given /\ ~config.evaluation
       THEN /\ evaluation_results' =
                 [InitialEvaluation EXCEPT
                    !.llm_feedback = "Evaluation skipped per configuration"]
            /\ pc' = "eval_nlp"
            /\ UNCHANGED <<max_retries, retry_count, sleeps, last_outcome,
                           transient_errors>>
       ELSE \/ /\ evaluation_results' =
                    [InitialEvaluation EXCEPT
                       !.llm_feedback = "LLM evaluation configuration failed"]
               /\ pc' = "eval_nlp"
               /\ UNCHANGED <<max_retries, retry_count, sleeps, last_outcome,
                           transient_errors>>
            \/ /\ evaluation_results' = InitialEvaluation
               /\ max_retries' = ConfiguredRetries(config, max_retries)
               /\ retry_count' = 0
               /\ sleeps' = <<>>
               /\ last_outcome' = NoOutcome
               /\ transient_errors' = 0
               /\ pc' = "eval_loop"
    /\ UNCHANGED <<input_vars, search_vars, metadata, extract_vars,
                   synthesized_answer, synth_calls, eval_calls, synth_ret, result>>

\* Lines 34-98: evaluation switched off returns at once; a client that cannot
\* be configured leaves the LLM evaluation out; else the retry loop is set up.
EvalEnter ==
    /\ pc = "eval_enter"
    /\ IF config.given /\ ~config.evaluation
       THEN /\ evaluation_results' =
                 [InitialEvaluation EXCEPT
                    !.llm_feedback = "Evaluation skipped per configuration"]
            /\ pc' = "eval_returned"
            /\ UNCHANGED <<max_retries, retry_count, sleeps, last_outcome,
                           transient_errors>>
       ELSE \/ /\ evaluation_results' =
                    [InitialEvaluation EXCEPT
                       !.llm_feedback = "LLM evaluation configuration failed"]
               /\ pc' = "eval_nlp"
               /\ UNCHANGED <<max_retries, retry_count, sleeps, last_outcome,
                           transient_errors>>
            \/ /\ evaluation_results' = InitialEvaluation
               /\ max_retries' = ConfiguredRetries(config, max_retries)
               /\ retry_count' = 0
               /\ sleeps' = <<>>
               /\ last_outcome' = NoOutcome
               /\ transient_errors' = 0
               /\ pc' = "eval_loop"
    /\ UNCHANGED <<input_vars, search_vars, metadata, extract_vars,
                   synthesized_answer, synth_calls, eval_calls, synth_ret, result>>

\* One turn of `while retry_count <= max_retries` (lines 100-190).
EvalLoop ==
    /\ pc = "eval_loop"
    /\ IF retry_count > max_retries
       THEN /\ pc' = "eval_nlp"
            /\ UNCHANGED <<evaluation_results, eval_calls, retry_count, sleeps, last_outcome,
                           transient_errors>>
       ELSE /\ eval_calls' = eval_calls + 1
            /\ \E o \in EvalResponses \cup LLMErrors :
                 /\ last_outcome' = o
                 /\ transient_errors' = transient_errors + (IF IsTransient(o) THEN 1 ELSE 0)
                 /\ IF o.kind = "response"
                    THEN /\ evaluation_results' = ParseEvaluation(evaluation_results, o)
                         /\ pc' = "eval_nlp"
                         /\ UNCHANGED <<retry_count, sleeps>>
                    ELSE LET clause == Handler(o.cls) IN
                         IF ShouldRetry(clause, o, retry_count, max_retries)
                         THEN /\ sleeps' = Append(sleeps, BackoffDelay(retry_count))
                              /\ retry_count' = retry_count + 1
                              /\ UNCHANGED <<pc, evaluation_results>>
                         ELSE /\ evaluation_results' =
                                   [evaluation_results EXCEPT !.llm_feedback =
                                      CASE clause = "RateLimitError" ->
                                             "LLM rate limit exceeded"
                                        [] clause = "APIConnectionError" ->
                                             "LLM API connection failed"
                                        [] clause = "APIError" -> "LLM API error"
                                        [] clause = "AuthenticationError" ->
                                             "LLM authentication failed"
                                        [] OTHER -> "LLM evaluation failed"]
                              /\ pc' = "eval_nlp"
                              /\ UNCHANGED <<retry_count, sleeps>>
    /\ UNCHANGED <<input_vars, search_vars, metadata, extract_vars,
                      synthesized_answer, synth_calls, max_retries, synth_ret, result>>

\* What the feedback reads after text is appended to it:
\* (evaluation_results["llm_feedback"] or "") + text.
AppendFeedback(feedback, text) ==
    (IF feedback = "None" THEN "" ELSE feedback) \o " " \o text

\* Lines 192-219: the embedding similarity of query and answer; a missing spaCy
\* model or any other failure is written into the feedback.
EvalNlp ==
    /\ pc = "eval_nlp"
    /\ \/ UNCHANGED evaluation_results
       \/ /\ Len(synthesized_answer) >= 10
          /\ \E text \in {"spaCy model not found", "NLP evaluation failed"} :
               evaluation_results' =
                 [evaluation_results EXCEPT
                    !.llm_feedback = AppendFeedback(@, text)]
    /\ pc' = "eval_returned"
    /\ UNCHANGED <<input_vars, search_vars, metadata, extract_vars,
                   synthesized_answer, synth_calls, eval_calls, llm_vars, result>>

evaluate_answer_quality == EvalEnter \/ EvalLoop \/ EvalNlp


UnexpectedErrorAnswer == "I encountered an unexpected error while trying to answer your question. Please try again later."

\* evaluation_results.get(field, 0) < 0.5 (in tenths); comparing None or a
\* string with a float raises TypeError.
ScoreOf(ev, field) == IF ev[field] = Missing THEN Num(0) ELSE ev[field]
Comparable(score) == score.t = "number"

\* Whether the checks of lines 250-256 raise.
ChecksRaise(ev) ==
    \/ ~Comparable(ScoreOf(ev, "factual_consistency_score"))
    \/ ~Comparable(ScoreOf(ev, "relevance_score"))

\* The errors the checks of lines 250-256 append before they end or raise.
CheckErrors(ev) ==
    LET f == ScoreOf(ev, "factual_consistency_score")
        r == ScoreOf(ev, "relevance_score")
    IN  (IF Comparable(f) /\ f.v < 5
         THEN <<Err("Low factual consistency score", <<>>)>> ELSE <<>>)
        \o (IF Comparable(f) /\ Comparable(r) /\ r.v < 5
            THEN <<Err("Low relevance score", <<>>)>> ELSE <<>>)

\* evaluate_answer_quality returned (lines 245-265): the two scores are
\* checked; a TypeError of a check is handled by `except Exception`, which
\* replaces the answer.
EvalReturned ==
    /\ pc = "eval_returned"
    /\ IF ChecksRaise(evaluation_results)
       THEN /\ metadata' = [metadata EXCEPT
                  !.answer_evaluation_time = 1,
                  !.errors =
                  @ \o CheckErrors(evaluation_results)
                    \o <<Err("Unexpected error", "TypeError")>>]
            /\ synthesized_answer' = UnexpectedErrorAnswer
       ELSE /\ metadata' = [metadata EXCEPT
                  !.answer_evaluation_time = 1,
                  !.errors =
                  @ \o CheckErrors(evaluation_results)]
            /\ UNCHANGED synthesized_answer
    /\ retry_count' = 0
    /\ sleeps' = <<>>
    /\ last_outcome' = NoOutcome
    /\ transient_errors' = 0
    /\ pc' = "construct"
    /\ UNCHANGED <<input_vars, search_vars, extract_vars, evaluation_results,
                   synth_calls, eval_calls, max_retries, synth_ret, result>>

\* AnswerEvaluationResult(...) validates: its four scores are floats.
EvaluationValidates(ev) ==
    \A f \in ScoreFields : ScoreOf(ev, f).t = "number"

\* Lines 267-329: the structured output, or the plain dictionary when building
\* it raises. FinalAnswerOutput is imported from core/models.py, which does not
\* define it, so its construction may succeed or raise.
ConstructOutput ==
    /\ pc = "construct"
    /\ \/ /\ EvaluationValidates(evaluation_results)
          /\ result' =
               [kind |-> "structured",
                synthesized_answer |->
                   [answer |-> synthesized_answer, source_urls |-> source_urls],
                evaluation_results |->
                   [evaluation_results EXCEPT
                      !.factual_consistency_score = ScoreOf(evaluation_results, "factual_consistency_score"),
                      !.relevance_score = ScoreOf(evaluation_results, "relevance_score"),
                      !.completeness_score = ScoreOf(evaluation_results, "completeness_score"),
                      !.conciseness_score = ScoreOf(evaluation_results, "conciseness_score")],
                source_urls |-> source_urls,
                extracted_contents |-> filtered_contents,
                metadata |-> metadata]
       \/ result' =
               [kind |-> "fallback",
                synthesized_answer |-> synthesized_answer,
                source_urls |-> source_urls,
                extracted_contents |-> extracted_contents,
                evaluation_results |-> evaluation_results,
                metadata |-> metadata]
    /\ pc' = "done"
    /\ UNCHANGED <<input_vars, search_vars, metadata, extract_vars, answer_vars,
                   llm_vars>>

\* The answer text of a result, as a caller reads it.
ResultAnswer(r) ==
    IF r.kind = "structured" THEN r.synthesized_answer.answer ELSE r.synthesized_answer

orchestrate_answer_generation ==
    \/ StartSearch
    \/ SearchReturned
    \/ SearchRaised
    \/ \E i \in 1..Len(fetch_result) : FetchCompletes(i)
    \/ ExtractionReturns
    \/ CallSynthesize
    \/ SynthReturned
    \/ SynthRaised
    \/ EvalReturned
    \/ ConstructOutput


Next ==
    \/ orchestrate_answer_generation
    \/ run_orchestration
    \/ synthesize_answer
    \/ evaluate_answer_quality

Spec == Init /\ [][Next]_vars

\* ------------------------------ synthesize_answer called on its own

\* AdvancedConfig.retry_count: Field(default=3, ge=0, le=10).
retry_count_le == 10

\* The configurations a direct call is given: none, or one with any permitted
\* advanced.retry_count.
RetryConfigs ==
    {NoConfig} \cup
    [provider : {P_sel_brave}, evaluation : {TRUE}, retry_count : 0..retry_count_le,
     given : {TRUE}]

\* synthesize_answer(query, content_snippets, max_retries, config) is called.
InitSynth ==
    /\ pc = "synth_enter"
    /\ config \in RetryConfigs
    /\ num_links_to_parse = 1
    /\ max_retries \in 0..MaxRetries
    /\ call_args = <<>>
    /\ NothingRun

SpecSynth == InitSynth /\ [][synthesize_answer]_vars

\* ------------------------- merge_and_deduplicate called on its own

\* All sequences over S of length n at most.
SeqsUpTo(S, n) == UNION { [1..m -> S] : m \in 0..n }

\* The results the outputs are made of: two URLs of one page, which differ in
\* case, query and trailing slash, and another page.
MergeItems ==
    { [title |-> "Title", url |-> U_a3, snippet |-> "s2"],
      [title |-> "T",     url |-> U_a2, snippet |-> "s1"],
      [title |-> "Title", url |-> U_b,  snippet |-> "s1"] }

\* The outputs handed over: SearchModuleOutputs of MaxResults results at most.
MergeOutputValues == {Output(l) : l \in SeqsUpTo(MergeItems, MaxResults)}

\* merge_and_deduplicate(module_outputs) is called.
InitMerge ==
    /\ pc = "merge_call"
    /\ config = NoConfig
    /\ num_links_to_parse = 1
    /\ max_retries = DefaultMaxRetries
    /\ \E n \in 0..MaxOutputs : call_args \in [1..n -> MergeOutputValues]
    /\ NothingRun

MergeCall ==
    /\ pc = "merge_call"
    /\ call_ret' = merge_and_deduplicate(call_args)
    /\ pc' = "merge_returned"
    /\ UNCHANGED <<config, num_links_to_parse, call_args, search_vars, metadata,
                   extract_vars, answer_vars, llm_vars, result>>

SpecMerge == InitMerge /\ [][MergeCall]_vars

\* ----------------------------------- URL selection run on its own

\* Results for pages of one site, one of them reached through a port, and
\* for pages of another site, one of which names the first site in its path.
SelectItems ==
    { [title |-> "T", url |-> u, snippet |-> "s1"] :
        u \in { <<"https", "://", "a.com", "/", "p">>,
                <<"https", "://", "a.com", "/", "y">>,
                <<"https", "://", "a.com", "/", "x">>,
                <<"https", "://", "a.com", ":8080", "/", "z">>,
                <<"https", "://", "b.com", "/", "y">>,
                <<"https", "://", "b.com", "/", "a.com">> } }

\* A list run_orchestration can return: merging and ranking leave it as it is.
IsRanked(results) ==
    rerank_results(merge_and_deduplicate(<<Output(results)>>)) = results

\* The selection loop of orchestrate_answer_generation is run on a ranked list.
InitSelect ==
    /\ pc = "select_call"
    /\ config = NoConfig
    /\ num_links_to_parse = 1
    /\ max_retries = DefaultMaxRetries
    /\ \E m \in 0..MaxRanked : \E results \in [1..m -> SelectItems] :
         \E n \in 1..MaxSelect :
           /\ IsRanked(results)
           /\ call_args = [results |-> results, n |-> n]
    /\ NothingRun

SelectCall ==
    /\ pc = "select_call"
    /\ call_ret' = SelectUrls(call_args.results, <<>>, {}, call_args.n)
    /\ pc' = "select_returned"
    /\ UNCHANGED <<config, num_links_to_parse, call_args, search_vars, metadata,
                   extract_vars, answer_vars, llm_vars, result>>

SpecSelect == InitSelect /\ [][SelectCall]_vars

\* -------------------------------- rerank_results called on its own

\* Results with short and long titles, for pages with and without an indicator
\* in the URL (one of them in upper case in the path).
RankItems ==
    { [title |-> t, url |-> u, snippet |-> "s1"] :
        t \in {"T", "Title"},
        u \in { U_a1, U_b, U_api,
                <<"https", "://", "b.com", "/", "API", "/", "x">> } }

\* rerank_results(results) is called on a merged list, as run_orchestration does.
InitRank ==
    /\ pc = "rank_call"
    /\ config = NoConfig
    /\ num_links_to_parse = 1
    /\ max_retries = DefaultMaxRetries
    /\ \E m \in 0..MaxRanked : \E results \in [1..m -> RankItems] :
         /\ merge_and_deduplicate(<<Output(results)>>) = results
         /\ call_args = results
    /\ NothingRun

\* rerank_results is called, the first time or again on the same list.
RerankCall ==
    /\ pc \in {"rank_call", "rank_returned"}
    /\ call_ret' = rerank_results(call_args)
    /\ pc' = "rank_returned"
    /\ UNCHANGED <<config, num_links_to_parse, call_args, search_vars, metadata,
                   extract_vars, answer_vars, llm_vars, result>>

SpecRank == InitRank /\ [][RerankCall]_vars

\* ----------------------- evaluate_answer_quality called on its own

\* evaluate_answer_quality(query, synthesized_answer, original_content,
\* max_retries, config): any permitted retry_count, evaluation switched on or
\* off, a long answer, one shorter than 10 characters, or none.
InitEval ==
    /\ pc = "eval_call"
    /\ config \in RetryConfigs \cup
                  [provider : {P_sel_brave}, evaluation : {FALSE},
                   retry_count : {0, DefaultMaxRetries}, given : {TRUE}]
    /\ num_links_to_parse = 1
    /\ max_retries \in 0..MaxRetries
    /\ call_args \in {<<AnswerLong>>, <<AnswerShort>>, <<"">>}
    /\ NothingRun

\* The call binds the synthesized_answer parameter.
EvalCall ==
    /\ pc = "eval_call"
    /\ synthesized_answer' = call_args[1]
    /\ pc' = "eval_enter"
    /\ UNCHANGED <<input_vars, search_vars, metadata, extract_vars,
                   evaluation_results, result, synth_calls, eval_calls,
                   llm_vars>>

SpecEval == InitEval /\ [][EvalCall \/ evaluate_answer_quality]_vars

\* ------------------------------------- the search command of the CLI

\* The Configuration the search command has assembled (lines 190-235) from
\* file or environment and the command-line options, and its search.max_urls
\* (--max-urls 1): here --search-provider selenium,brave with --no-evaluation,
\* or neither option.
InitCli ==
    /\ pc = "cli"
    /\ call_args \in
         { <<c, n>> : c \in { [provider |-> P_sel_brave, evaluation |-> FALSE,
                                retry_count |-> 1, given |-> TRUE],
                               [provider |-> P_all, evaluation |-> TRUE,
                                retry_count |-> 1, given |-> TRUE] },
                      n \in {1} }
    /\ config = NoConfig
    /\ num_links_to_parse = 1
    /\ max_retries = DefaultMaxRetries
    /\ NothingRun

\* Line 253: asyncio.run(orchestrate_answer_generation(config.query,
\* config.search.max_urls)): the config parameter keeps its default, None.
CliSearch ==
    /\ pc = "cli"
    /\ config' = NoConfig
    /\ num_links_to_parse' = call_args[2]
    /\ pc' = "start"
    /\ UNCHANGED <<direct_vars, search_vars, metadata, extract_vars, answer_vars,
                   llm_vars, result>>

SpecCli == InitCli /\ [][CliSearch \/ Next]_vars

\* --------------------- is_low_quality_content called on its own

\* The texts it is given: the empty one, and texts of a length below, at and
\* above MIN_CONTENT_LENGTH made of words some patterns are made of, in
\* either case.
InitQuality ==
    /\ pc = "quality_call"
    /\ config = NoConfig
    /\ num_links_to_parse = 1
    /\ max_retries = DefaultMaxRetries
    /\ \E n \in 0..MaxWords :
       \E words \in [1..n -> {"404", "Not", "Found", "found", "CAPTCHA", "page"}] :
       \E length \in {0, 50, MIN_CONTENT_LENGTH - 1, MIN_CONTENT_LENGTH,
                       MIN_CONTENT_LENGTH + 50} :
         /\ length = 0 => words = <<>>
         /\ call_args = [length |-> length, words |-> words]
    /\ NothingRun

QualityCall ==
    /\ pc = "quality_call"
    /\ call_ret' = is_low_quality_content(call_args)
    /\ pc' = "quality_returned"
    /\ UNCHANGED <<config, num_links_to_parse, call_args, search_vars, metadata,
                   extract_vars, answer_vars, llm_vars, result>>

SpecQuality == InitQuality /\ [][QualityCall]_vars

\* -------------------------------------------- Configuration._deep_merge

\* Python objects: dictionaries live in a heap (a sequence, the address of a
\* dictionary is its index) and are referred to by address, so that a write
\* through one reference shows through every other; lists, sets and plain
\* values are never written in place by the merge and are values.
Plain(x)   == [t |-> "plain", v |-> x]
List(xs)   == [t |-> "list", v |-> xs]
SetOf(xs)  == [t |-> "set", v |-> xs]
DictAt(a)  == [t |-> "dict", v |-> a]

\* d[key] = value
SetItem(d, key, value) ==
    [k \in DOMAIN d \cup {key} |-> IF k = key THEN value ELSE d[k]]

\* A mutant of DictCopy: result = base_dict, no copy is taken.
DictNoCopy(heap, a) == [heap |-> heap, ret |-> a]

\* result = base_dict.copy(): a new dictionary with the same items.
DictCopy(heap, a) == [heap |-> Append(heap, heap[a]), ret |-> Len(heap) + 1]

\* Lines 354-373: the dictionary at base_dict is copied and the items of the
\* one at override_dict are written into the copy, one key after the other.
RECURSIVE deep_merge(_, _, _)
RECURSIVE DeepMergeItems(_, _, _, _)
DeepMergeItems(heap, merged, override_dict, keys) ==
    IF keys = {} THEN [heap |-> heap, ret |-> merged]
    ELSE LET key   == CHOOSE k \in keys : TRUE
             value == heap[override_dict][key]
             there == key \in DOMAIN heap[merged]
         IN  IF there /\ heap[merged][key].t = "dict" /\ value.t = "dict"
             THEN LET sub == deep_merge(heap, heap[merged][key].v, value.v)
                  IN  DeepMergeItems(
                         [sub.heap EXCEPT
                            ![merged] = SetItem(@, key, DictAt(sub.ret))],
                         merged, override_dict, keys \ {key})
             ELSE IF there /\ heap[merged][key].t = "list" /\ value.t = "list"
             THEN DeepMergeItems([heap EXCEPT ![merged] = SetItem(@, key, value)],
                                 merged, override_dict, keys \ {key})
             ELSE IF there /\ heap[merged][key].t = "set" /\ value.t = "set"
             THEN DeepMergeItems([heap EXCEPT ![merged] = SetItem(@, key, value)],
                                 merged, override_dict, keys \ {key})
             ELSE DeepMergeItems([heap EXCEPT ![merged] = SetItem(@, key, value)],
                                 merged, override_dict, keys \ {key})

deep_merge(heap, base_dict, override_dict) ==
    LET copied == DictCopy(heap, base_dict)
    IN  DeepMergeItems(copied.heap, copied.ret, override_dict,
                       DOMAIN heap[override_dict])

\* The dictionary at an address as a value, nested dictionaries included
\* (what == compares).
RECURSIVE DictValue(_, _)
DictValue(heap, a) ==
    [k \in DOMAIN heap[a] |->
        IF heap[a][k].t = "dict"
        THEN [t |-> "dict", v |-> DictValue(heap, heap[a][k].v)]
        ELSE heap[a][k]]

\* A dictionary with the items of the pairs given, a pair of an absent value
\* left out.
Absent == [t |-> "absent", v |-> 0]
DictOf(pairs) ==
    LET present == { i \in 1..Len(pairs) : pairs[i][2] # Absent }
    IN  [k \in { pairs[i][1] : i \in present } |->
            LET i == CHOOSE i \in present : pairs[i][1] = k IN pairs[i][2]]

\* _deep_merge(base, override) is called on two dictionaries, each with a
\* nested dictionary of its own (heap: base, base["search"], override,
\* override["search"]); every key may be absent, "search" may hold a plain
\* value in place of the dictionary.
InitDeepMerge ==
    /\ pc = "deep_merge_call"
    /\ config = NoConfig
    /\ num_links_to_parse = 1
    /\ max_retries = DefaultMaxRetries
    /\ \E bq, oq \in {Absent, Plain(1), Plain(2)} :
       \E bt, ot \in {Absent, List(<<1>>), List(<<2, 3>>), SetOf({1}), SetOf({2, 3})} :
       \E bs \in {Absent, Plain(1), DictAt(2)} :
       \E os \in {Absent, Plain(1), DictAt(4)} :
       \E bp, op \in {Absent, Plain(1), Plain(2)} :
       \E bm, om \in {Absent, List(<<1>>)} :
         /\ bs # DictAt(2) => bp = Absent /\ bm = Absent
         /\ os # DictAt(4) => op = Absent /\ om = Absent
         /\ call_args =
              [heap |-> << DictOf(<< <<"query", bq>>, <<"tags", bt>>, <<"search", bs>> >>),
                           DictOf(<< <<"provider", bp>>, <<"max_results", bm>> >>),
                           DictOf(<< <<"query", oq>>, <<"tags", ot>>, <<"search", os>> >>),
                           DictOf(<< <<"provider", op>>, <<"max_results", om>> >>) >>,
               base_dict |-> 1, override_dict |-> 3]
    /\ NothingRun

DeepMergeCall ==
    /\ pc = "deep_merge_call"
    /\ call_ret' = deep_merge(call_args.heap, call_args.base_dict,
                              call_args.override_dict)
    /\ pc' = "deep_merge_returned"
    /\ UNCHANGED <<config, num_links_to_parse, call_args, search_vars, metadata,
                   extract_vars, answer_vars, llm_vars, result>>

SpecDeepMerge == InitDeepMerge /\ [][DeepMergeCall]_vars

\* ------------------------------------ Configuration.merge_configurations

\* A Configuration and its SearchConfig and LLMConfig are objects of the same
\* heap, their fields the items. to_dict() (model_dump) builds new
\* dictionaries, one for the object and one for each nested model; cls(**d)
\* builds new models from the dictionaries in the same way.
RECURSIVE DeepCopy(_, _)
RECURSIVE DeepCopyItems(_, _, _)
DeepCopyItems(heap, copy, keys) ==
    IF keys = {} THEN [heap |-> heap, ret |-> copy]
    ELSE LET key == CHOOSE k \in keys : TRUE
         IN  IF heap[copy][key].t = "dict"
             THEN LET sub == DeepCopy(heap, heap[copy][key].v)
                  IN  DeepCopyItems(
                         [sub.heap EXCEPT ![copy] = SetItem(@, key, DictAt(sub.ret))],
                         copy, keys \ {key})
             ELSE DeepCopyItems(heap, copy, keys \ {key})

DeepCopy(heap, a) ==
    DeepCopyItems(Append(heap, heap[a]), Len(heap) + 1, DOMAIN heap[a])

to_dict(heap, configuration) == DeepCopy(heap, configuration)
NewConfiguration(heap, kwargs) == DeepCopy(heap, kwargs)

\* A mutant of MergeSubsequent: the earlier configuration overrides the later.
RECURSIVE MergeSubsequentEarlierWins(_, _, _, _)
MergeSubsequentEarlierWins(heap, merged_dict, configs, i) ==
    IF i > Len(configs) THEN [heap |-> heap, ret |-> merged_dict]
    ELSE LET dumped == to_dict(heap, configs[i])
             merged == deep_merge(dumped.heap, dumped.ret, merged_dict)
         IN  MergeSubsequentEarlierWins(merged.heap, merged.ret, configs, i + 1)

\* Lines 337-339: for config in configs[1:]:
\*     merged_dict = cls._deep_merge(merged_dict, config.to_dict())
RECURSIVE MergeSubsequent(_, _, _, _)
MergeSubsequent(heap, merged_dict, configs, i) ==
    IF i > Len(configs) THEN [heap |-> heap, ret |-> merged_dict]
    ELSE LET dumped == to_dict(heap, configs[i])
             merged == deep_merge(dumped.heap, merged_dict, dumped.ret)
         IN  MergeSubsequent(merged.heap, merged.ret, configs, i + 1)

\* Lines 306-341.
merge_configurations(heap, configs) ==
    IF configs = <<>>
    THEN [kind |-> "raise", value |-> "ValueError", heap |-> heap, ret |-> 0]
    ELSE LET first == to_dict(heap, configs[1])
             merged == IF Len(configs) = 1 THEN first
                       ELSE MergeSubsequent(first.heap, first.ret, configs, 2)
             built  == NewConfiguration(merged.heap, merged.ret)
         IN  [kind |-> "return", value |-> "", heap |-> built.heap, ret |-> built.ret]

\* The heap of n Configuration objects, each followed by its SearchConfig and
\* its LLMConfig; a field holds its default or another value.
ConfigObjects(fields) ==
    << [query |-> Plain(fields.query), search |-> DictAt(0), llm |-> DictAt(0)],
       [provider |-> Plain(fields.search_provider), max_results |-> Plain(10)],
       [provider |-> Plain(fields.llm_provider), model |-> Plain("gpt-4o-mini")] >>

RECURSIVE ConfigHeap(_, _)
ConfigHeap(fieldsSeq, i) ==
    IF i > Len(fieldsSeq) THEN <<>>
    ELSE LET base == 3 * (i - 1)
             objs == ConfigObjects(fieldsSeq[i])
         IN  << [objs[1] EXCEPT !.search = DictAt(base + 2), !.llm = DictAt(base + 3)],
                objs[2], objs[3] >> \o ConfigHeap(fieldsSeq, i + 1)

InitMergeConfigurations ==
    /\ pc = "merge_configurations_call"
    /\ config = NoConfig
    /\ num_links_to_parse = 1
    /\ max_retries = DefaultMaxRetries
    /\ \E n \in 0..MaxConfigs :
       \E fieldsSeq \in [1..n -> [query : {"q1", "q2"},
                                   search_provider : {"all", "brave"},
                                   llm_provider : {"openrouter", "anthropic"}]] :
         call_args = [heap |-> ConfigHeap(fieldsSeq, 1),
                      configs |-> [i \in 1..n |-> 3 * (i - 1) + 1]]
    /\ NothingRun

MergeConfigurationsCall ==
    /\ pc = "merge_configurations_call"
    /\ call_ret' = merge_configurations(call_args.heap, call_args.configs)
    /\ pc' = "merge_configurations_returned"
    /\ UNCHANGED <<config, num_links_to_parse, call_args, search_vars, metadata,
                   extract_vars, answer_vars, llm_vars, result>>

SpecMergeConfigurations == InitMergeConfigurations /\ [][MergeConfigurationsCall]_vars






\* =============================================================== claims

\* ---------------------------------------------------------------- C1

\* The extraction stage has just ended: what the fetches gave is still at hand.
ExtractionEnded ==
    pc = "synthesize" \/ (pc = "done" /\ result.kind = "no_content")

\* The fetch of the i-th selected URL returned a non-empty text.
GaveText(i) ==
    fetch_result[i].kind = "str" /\ fetch_result[i].content.length > 0

\* The non-empty texts the fetches returned, in the order of the selected URLs.
RECURSIVE ReturnedTexts(_)
ReturnedTexts(i) ==
    IF i > Len(fetch_result) THEN <<>>
    ELSE (IF GaveText(i) THEN <<fetch_result[i].content>> ELSE <<>>)
         \o ReturnedTexts(i + 1)

\* C1, as the specification states it: when at least one fetch returned a
\* non-empty text and every returned text is low quality, the run goes on to
\* synthesize_answer with those texts, records 'Using low quality content as
\* fallback' in metadata errors, and does not end with the 'no content' result.
C1_LowQualityFallbackSynthesizes ==
    (/\ ExtractionEnded
     /\ \E i \in 1..Len(fetch_result) : GaveText(i)
     /\ \A i \in 1..Len(fetch_result) :
          GaveText(i) => is_low_quality_content(fetch_result[i].content).low)
      => /\ pc = "synthesize"
         /\ filtered_contents = ReturnedTexts(1)
         /\ Err("Using low quality content as fallback", <<>>)
              \in SeqToSet(metadata.errors)

\* ---------------------------------------------------------------- C2

\* C2, as the specification states it: when synthesize_answer returned a
\* non-empty answer, the answer of the result is that answer whatever the
\* evaluation stage did.
C2_EvaluationKeepsAnswer ==
    (pc = "done" /\ synth_ret.kind = "return" /\ synth_ret.value # "")
      => ResultAnswer(result) = synth_ret.value

\* ---------------------------------------------------------------- C3

\* run_orchestration has ended.
SearchEnded == pc = "search_returned"

\* C3, as the specification states it: every selected adapter that can be
\* loaded is invoked and awaited whatever the others do, and when one of them
\* returns a result set run_orchestration returns the ranked merge of exactly
\* the result sets that were returned.
C3_AdaptersAreIsolated ==
    SearchEnded =>
      /\ module_idx > Len(available_modules)
      /\ \A i \in 1..Len(task_result) : task_result[i] # Pending
      /\ (\E i \in 1..Len(task_result) : task_result[i].kind = "SearchModuleOutput")
           => /\ search_output.kind = "SearchModuleOutput"
              /\ search_output.results =
                   rerank_results(merge_and_deduplicate(SuccessfulResults(task_result)))

\* ---------------------------------------------------------------- C4

\* run_orchestration raised: no adapter could be loaded, none returned a result
\* set, or the call of one raised.
EveryAdapterFailed == search_output.kind \notin {"none", "SearchModuleOutput"}

\* C4: when every selected adapter fails, orchestrate_answer_generation returns
\* a result whose answer is a non-empty message and whose source URL list is
\* empty, and the run makes no content fetch and no LLM call.
C4_AllAdaptersFailStillReturns ==
    EveryAdapterFailed =>
      /\ fetch_calls = 0 /\ synth_calls = 0 /\ eval_calls = 0
      /\ pc \in {"search_returned", "construct", "done"}
      /\ pc = "done" =>
           /\ result.kind \in {"structured", "fallback"}
           /\ ResultAnswer(result) # ""
           /\ result.source_urls = <<>>

\* Both adapters of a run raised, and the run has returned its result.
C4_Witness ==
    /\ pc = "done"
    /\ search_output.kind = "RuntimeError: All search modules failed to return results"
    /\ result.kind = "fallback"
    /\ Len(result.metadata.errors) = 1

\* ---------------------------------------------------------------- C5

\* No fetch returned a text: each raised, returned None or returned "".
NoFetchGaveText == \A i \in 1..Len(fetch_result) : ~GaveText(i)

\* C5: when no selected URL's fetch returns text, or no URL was selected,
\* orchestrate_answer_generation returns the 'no content' result: a message as
\* answer, no source URLs, the four scores 0.0, and neither synthesize_answer
\* nor evaluate_answer_quality is called.
C5_NoContentResult ==
    /\ (ExtractionEnded /\ NoFetchGaveText) => (pc = "done")
    /\ result.kind = "no_content" =>
         /\ pc = "done"
         /\ result.synthesized_answer # ""
         /\ result.source_urls = <<>>
         /\ \A f \in ScoreFields : result.evaluation_results[f] = Num(0)
         /\ synth_calls = 0
         /\ eval_calls = 0

\* Two URLs were selected; one fetch raised and the other returned None.
C5_Witness ==
    /\ pc = "done"
    /\ result.kind = "no_content"
    /\ Len(fetch_result) = 2
    /\ NoFetchGaveText
    /\ \E i \in 1..2 : fetch_result[i] = FetchRaised
    /\ \E i \in 1..2 : fetch_result[i] = FetchNone

\* ---------------------------------------------------------------- C6

\* The results of all outputs, in adapter order then result order.
RECURSIVE Flatten(_)
Flatten(outputs) ==
    IF outputs = <<>> THEN <<>> ELSE Head(outputs).results \o Flatten(Tail(outputs))

\* The part of a URL before its query and fragment.
RECURSIVE BeforeQuery(_)
BeforeQuery(url) ==
    IF url = <<>> \/ Head(url) \in {"?", "#"} THEN <<>>
    ELSE <<Head(url)>> \o BeforeQuery(Tail(url))

\* The key the claim names: lower-cased scheme://host/path, trailing slash
\* stripped, query and fragment dropped.
ClaimKey(item) == RStripSlash(Lower(BeforeQuery(item.url)))

\* C6: merge_and_deduplicate returns exactly one item per distinct key of its
\* input, namely the first item with that key in adapter order then result
\* order; no key of the input is missing and no two returned items share a key.
C6_MergeKeepsFirstPerKey ==
    pc = "merge_returned" =>
      LET flat == Flatten(call_args)
          FirstAt(k) == CHOOSE i \in 1..Len(flat) :
                           /\ ClaimKey(flat[i]) = k
                           /\ \A j \in 1..(i - 1) : ClaimKey(flat[j]) # k
      IN  /\ {ClaimKey(call_ret[i]) : i \in 1..Len(call_ret)}
               = {ClaimKey(flat[i]) : i \in 1..Len(flat)}
          /\ \A i, j \in 1..Len(call_ret) :
               i # j => ClaimKey(call_ret[i]) # ClaimKey(call_ret[j])
          /\ \A i \in 1..Len(call_ret) :
               call_ret[i] = flat[FirstAt(ClaimKey(call_ret[i]))]

\* Two outputs were merged, and a result of the second has the key of a
\* different result of the first: the first one was returned, the other was not.
C6_Witness ==
    /\ pc = "merge_returned"
    /\ Len(call_args) = 2
    /\ \E i \in 1..Len(call_args[1].results), j \in 1..Len(call_args[2].results) :
         LET kept    == call_args[1].results[i]
             dropped == call_args[2].results[j]
         IN  /\ kept # dropped
             /\ ClaimKey(kept) = ClaimKey(dropped)
             /\ kept \in SeqToSet(call_ret)
             /\ dropped \notin SeqToSet(call_ret)
    /\ Len(call_ret) = 2

\* ---------------------------------------------------------------- C7

\* C7: the ranked list run_orchestration returns is the ranked merge of the
\* returned result sets taken in the order of the adapter list, in whatever
\* order the tasks completed.
C7_MergeIgnoresCompletionOrder ==
    (SearchEnded /\ search_output.kind = "SearchModuleOutput") =>
      LET outputs == SuccessfulResults([i \in 1..Len(tasks) |-> task_result[i]])
      IN  search_output.results = rerank_results(merge_and_deduplicate(outputs))

\* The second task completed before the first, both returned result sets with
\* a page in common, and the first adapter's result for that page was kept.
C7_Witness ==
    /\ SearchEnded
    /\ completed = <<2, 1>>
    /\ task_result = <<Output(L1), Output(L2)>>
    /\ L1[1] \in SeqToSet(search_output.results)
    /\ L2[1] \notin SeqToSet(search_output.results)

\* ---------------------------------------------------------------- C8

\* min(16, 2^k) written out for the k-th retry, k from 0.
ClaimedDelay(k) ==
    CASE k = 0 -> 1 [] k = 1 -> 2 [] k = 2 -> 4 [] k = 3 -> 8 [] OTHER -> 16

\* synthesize_answer has ended.
SynthEnded == pc = "synth_returned"

\* C8: when N <= max_retries calls fail with a rate limit or a lost connection
\* and the next call succeeds, synthesize_answer has made exactly N+1 calls,
\* has slept min(16, 2^k) before its k-th retry (k = 0..N-1) and returns the
\* answer of the successful call; while retries are left such an error is
\* never the end of the call.
C8_TransientErrorsAreRetried ==
    /\ \A k \in 1..Len(sleeps) : sleeps[k] = ClaimedDelay(k - 1)
    /\ (SynthEnded /\ IsTransient(last_outcome)) => retry_count = max_retries
    /\ (SynthEnded /\ last_outcome.kind = "response"
          /\ transient_errors = retry_count) =>
           /\ retry_count <= max_retries
           /\ synth_calls = transient_errors + 1
           /\ Len(sleeps) = transient_errors
           /\ synth_ret.kind = "return"
           /\ \/ synth_ret.value = last_outcome.content
              \/ /\ last_outcome.content = "  Paris.  "
                 /\ synth_ret.value = "Paris."
              \/ /\ last_outcome.content = "   "
                 /\ synth_ret.value = ""

\* Six transient errors, then an answer: the delays double and are capped.
C8_Witness ==
    /\ SynthEnded
    /\ synth_ret = [kind |-> "return", value |-> AnswerLong]
    /\ transient_errors = 6
    /\ synth_calls = 7
    /\ sleeps = <<1, 2, 4, 8, 16, 16>>

\* ---------------------------------------------------------------- C9

C10_NonTransientRaisesAtOnce ==
    last_outcome.kind = "error"
      /\ last_outcome.cls \in {"AuthenticationError", "Exception"} =>
        SynthEnded /\ synth_ret.kind = "raise"

\* ---------------------------------------------------------------- C11

\* C11, as the specification states it: with advanced.retry_count = r configured,
\* synthesize_answer makes at most r retries and r+1 LLM calls; with r = 0 it
\* never sleeps and retries.
C11_RetryCountIsCeiling ==
    (config.given /\ pc # "synth_enter") =>
      /\ retry_count <= config.retry_count
      /\ synth_calls <= config.retry_count + 1
      /\ config.retry_count = 0 => sleeps = <<>>

\* ---------------------------------------------------------------- C12

\* The host of a URL: its netloc without the port.
HostOf(url) == SelectSeq(urlparse(url).netloc, LAMBDA t : t # ":8080")

\* C12, as the specification states it: the selection takes at most
\* num_links_to_parse URLs, takes no URL twice, and takes at most 2 URLs of
\* any one host.
C12_SelectionCaps ==
    pc = "select_returned" =>
      /\ Len(call_ret) <= call_args.n
      /\ \A i, j \in 1..Len(call_ret) : i # j => call_ret[i] # call_ret[j]
      /\ \A i \in 1..Len(call_ret) :
           Cardinality({j \in 1..Len(call_ret) :
                          HostOf(call_ret[j]) = HostOf(call_ret[i])}) <= 2

\* ---------------------------------------------------------------- C13

\* The lower-cased URL of the item contains 'api.', '/api/', 'search.' or 'engine.'.
HasIndicator(item) ==
    \E indicator \in { <<"api.">>, <<"/", "api", "/">>, <<"search.">>, <<"engine.">> } :
        Contains(Lower(UrlStr(item)), indicator)

\* C13: in the output of rerank_results every item with an indicator in its URL
\* precedes every item without one, and within each of the two tiers the items
\* are in ascending title length.
C13_TiersThenTitleLength ==
    pc = "rank_returned" =>
      \A i, j \in 1..Len(call_ret) :
        i < j =>
          /\ HasIndicator(call_ret[j]) => HasIndicator(call_ret[i])
          /\ HasIndicator(call_ret[i]) = HasIndicator(call_ret[j])
               => Len(call_ret[i].title) <= Len(call_ret[j].title)

\* A list that began with a long-titled plain page and ended with a short-titled
\* API page was ranked: both tiers and both title lengths are present.
C13_Witness ==
    /\ pc = "rank_returned"
    /\ Len(call_args) = 4
    /\ ~HasIndicator(call_args[1]) /\ call_args[1].title = "Title"
    /\ HasIndicator(call_args[4]) /\ call_args[4].title = "T"
    /\ call_ret[1] = call_args[4]
    /\ \E i \in 1..4 : HasIndicator(call_args[i]) /\ call_args[i].title = "Title"
    /\ \E i \in 1..4 : ~HasIndicator(call_args[i]) /\ call_args[i].title = "T"

\* ---------------------------------------------------------------- C14

\* How often x occurs in the sequence q.
Occurrences(q, x) == Cardinality({i \in 1..Len(q) : q[i] = x})

\* C14: rerank_results returns a permutation of its input in which items with
\* equal tier and title length keep their input order; with the order of C13
\* this fixes the output, so every invocation on the same list returns it.
C14_StablePermutation ==
    pc = "rank_returned" =>
      /\ Len(call_ret) = Len(call_args)
      /\ \A x \in RankItems : Occurrences(call_ret, x) = Occurrences(call_args, x)
      /\ \A i, j \in 1..Len(call_ret) :
           (/\ i < j
            /\ HasIndicator(call_ret[i]) = HasIndicator(call_ret[j])
            /\ Len(call_ret[i].title) = Len(call_ret[j].title))
             => \E a, b \in 1..Len(call_args) :
                  a < b /\ call_args[a] = call_ret[i] /\ call_args[b] = call_ret[j]

\* Two plain pages with titles of one length were ranked behind an API page
\* that came after them, and kept their order.
C14_Witness ==
    /\ pc = "rank_returned"
    /\ Len(call_args) = 3
    /\ ~HasIndicator(call_args[1]) /\ ~HasIndicator(call_args[2])
    /\ call_args[1].title = call_args[2].title
    /\ HasIndicator(call_args[3])
    /\ call_ret = <<call_args[3], call_args[1], call_args[2]>>

\* ---------------------------------------------------------------- C15

\* The stage a run is in: 1 Search, 2 Extraction, 3 Synthesis, 4 Evaluation,
\* 5 the construction of the result and the end.
StageOf(p) ==
    CASE p \in {"start", "load", "gather", "search_returned"} -> 1
      [] p = "extract" -> 2
      [] p \in {"synthesize", "synth_enter", "synth_loop", "synth_returned"} -> 3
      [] p \in {"eval_enter", "eval_loop", "eval_nlp", "eval_returned"} -> 4
      [] OTHER -> 5

\* The stage the run is in has ended well: the next one may start.
StageSucceeded ==
    CASE pc = "search_returned" -> search_output.kind = "SearchModuleOutput"
      [] pc = "extract" ->
           /\ \A i \in 1..Len(fetch_result) : fetch_result[i] # FetchPending
           /\ \E i \in 1..Len(fetch_result) :
                GaveText(i) /\ ~is_low_quality_content(fetch_result[i].content).low
      [] pc = "synth_returned" -> synth_ret.kind \in {"return", "return_none"}
      [] pc = "eval_returned" -> TRUE
      [] OTHER -> FALSE

\* C15: the stages of a run follow one another in the order Search, Extraction,
\* Synthesis, Evaluation: no fetch is made before run_orchestration returned, no
\* synthesis call before every fetch completed, no evaluation call before
\* synthesize_answer returned, and a stage that failed is followed by no other.
C15_StagesInOrder ==
    /\ [](StageOf(pc) < 2 => fetch_calls = 0 /\ fetch_result = <<>>)
    /\ [](StageOf(pc) < 3 => synth_calls = 0)
    /\ [](StageOf(pc) < 4 => eval_calls = 0)
    /\ [][\/ StageOf(pc') = StageOf(pc)
          \/ StageOf(pc') = StageOf(pc) + 1 /\ StageSucceeded
          \/ StageOf(pc') = 5 /\ ~StageSucceeded
               /\ fetch_calls' = fetch_calls /\ synth_calls' = synth_calls
               /\ eval_calls' = eval_calls]_vars

\* A run went through all four stages: two fetches, LLM calls for the synthesis
\* and for the evaluation, and a result.
C15_Witness ==
    /\ pc = "done"
    /\ fetch_calls = 2
    /\ synth_calls >= 1
    /\ eval_calls >= 1
    /\ result.kind = "structured"

\* C16: when synthesize_answer raises, orchestrate_answer_generation still
\* returns a result: its answer is a non-empty error message, its four scores
\* are 0.0, the error is recorded in the errors of its metadata, and
\* evaluate_answer_quality was not called.
SynthesisFailed == synth_ret.kind = "raise"

InUnitRange(score) == score.t = "number" /\ score.v >= 0 /\ score.v <= 10

C17_ScoresInUnitRange ==
    /\ pc = "eval_returned" =>
          \A f \in ScoreFields : InUnitRange(evaluation_results[f])
    /\ (pc = "done" /\ eval_calls >= 1) =>
          \A f \in ScoreFields : InUnitRange(result.evaluation_results[f])

\* C18: evaluate_answer_quality parses the output of the evaluation LLM in two
\* steps. The fields of an output that is a JSON object are used; else the
\* fields of a JSON object held in a fenced block are used; else the four
\* scores stay 0.0 and llm_feedback holds a parse-error description. An output
\* that has no fields to use (valid JSON that is no object, or no content)
\* also leaves the scores 0.0 and a failure description in llm_feedback. Once
\* an output was received, parsed or not, no further LLM call is made.
Parsed == pc \in {"eval_nlp", "eval_returned"} /\ last_outcome.kind = "response"

FieldsUsed(object) ==
    /\ \A f \in ScoreFields :
          evaluation_results[f] =
             (IF object[f] = Missing THEN Num(0) ELSE object[f])
    /\ pc = "eval_nlp" => evaluation_results.llm_feedback = object.llm_feedback

ScoresStay(descriptions) ==
    /\ \A f \in ScoreFields : evaluation_results[f] = Num(0)
    /\ pc = "eval_nlp" => evaluation_results.llm_feedback \in descriptions

C18_TwoStepParse ==
    Parsed =>
        /\ CASE last_outcome.form \in {"json", "fenced"} ->
                   FieldsUsed(last_outcome.object)
              [] last_outcome.form \in {"badfence", "text"} ->
                   ScoresStay({"Error parsing LLM evaluation output",
                               "Error parsing LLM evaluation output: No valid JSON found"})
              [] OTHER -> ScoresStay({"LLM evaluation failed"})
        /\ eval_calls = Len(sleeps) + 1

C18_Witness ==
    /\ pc = "eval_returned"
    /\ last_outcome.kind = "response"
    /\ last_outcome.form = "fenced"
    /\ evaluation_results.relevance_score = Num(9)
    /\ eval_calls = 2

C18_WitnessParseFailure ==
    /\ pc = "eval_returned"
    /\ last_outcome.kind = "response"
    /\ last_outcome.form = "text"
    /\ eval_calls = 1
    /\ max_retries >= 1

\* C19: evaluate_answer_quality returns whenever the evaluation LLM fails: after
\* a permanent error, after a transient error that is not retried any more,
\* and when the LLM client cannot be configured, its result has all four
\* scores 0.0 and a non-empty llm_feedback describing the failure, and at most
\* max_retries + 1 LLM calls were made.
EvaluationEnabled == ~(config.given /\ ~config.evaluation)
ClientNotConfigured == EvaluationEnabled /\ eval_calls = 0
EvaluationLLMFailed ==
    /\ pc \in {"eval_nlp", "eval_returned"}
    /\ last_outcome.kind = "error" \/ ClientNotConfigured

FailureDescriptions ==
    {"LLM rate limit exceeded", "LLM API connection failed", "LLM API error",
     "LLM authentication failed", "LLM evaluation failed",
     "LLM evaluation configuration failed"}

C19_EvaluationErrorsDegrade ==
    /\ pc \in {"eval_loop", "eval_nlp", "eval_returned"} =>
          eval_calls <= max_retries + 1
    /\ EvaluationLLMFailed =>
          /\ \A f \in ScoreFields : evaluation_results[f] = Num(0)
          /\ evaluation_results.llm_feedback \notin {"None", ""}
          /\ pc = "eval_nlp" =>
                evaluation_results.llm_feedback \in FailureDescriptions
          /\ ClientNotConfigured =>
                \/ pc = "eval_returned"
                \/ evaluation_results.llm_feedback =
                      "LLM evaluation configuration failed"

C19_Witness ==
    /\ pc = "eval_returned"
    /\ last_outcome.kind = "error"
    /\ last_outcome.cls = "RateLimitError"
    /\ max_retries = 2
    /\ eval_calls = 3

\* C20: with config.llm.evaluation false, evaluate_answer_quality returns all
\* four scores 0.0 and the feedback 'Evaluation skipped per configuration',
\* having made no LLM call and not having computed the embedding similarity:
\* it returns straight from its entry.
EvaluationDisabled == config.given /\ ~config.evaluation

SkippedEvaluation ==
    [InitialEvaluation EXCEPT
       !.llm_feedback = "Evaluation skipped per configuration"]

C20_DisabledEvaluationSkipsAll ==
    /\ [](EvaluationDisabled =>
            /\ eval_calls = 0
            /\ pc \notin {"eval_loop", "eval_nlp"}
            /\ pc = "eval_returned" => evaluation_results = SkippedEvaluation)
    /\ [][(EvaluationDisabled /\ pc = "eval_enter") =>
            pc' = "eval_returned" /\ evaluation_results' = SkippedEvaluation]_vars

C20_Witness ==
    /\ EvaluationDisabled
    /\ pc = "eval_returned"
    /\ synthesized_answer = AnswerLong
    /\ max_retries >= 1

\* C21: every result orchestrate_answer_generation returns has the structure
\* of the success result, the no-content return and the error returns too: its
\* synthesized_answer is a record that holds the answer text under 'answer',
\* as callers read it (result['synthesized_answer']['answer']).
\* The three return statements build the answer differently: the dumped
\* FinalAnswerOutput holds a SynthesizedAnswer record, the dictionaries of
\* lines 206-221 and 317-329 hold the answer string itself.
AnswerUnderKey(r) == r.kind = "structured"

\* Stated of the returns that do not depend on whether FinalAnswerOutput can
\* be built: the success result and the no-content result.
C21_UniformResultStructure ==
    (pc = "done" /\ result.kind \in {"structured", "no_content"}) =>
        AnswerUnderKey(result)

\* C22: the run the search command starts is governed by the Configuration
\* the command assembled: with --no-evaluation no evaluation LLM call is made,
\* and with --search-provider only the adapters that match are invoked.
AssembledConfig == call_args[1]

MatchesAny(patterns, text) ==
    \E i \in 1..Len(patterns) : Contains(Lower(text.words), patterns[i])

C23_LowQualityIff ==
    pc = "quality_returned" =>
        (call_ret.low <=>
            \/ call_args.length = 0
            \/ call_args.length < 200
            \/ MatchesAny(ERROR_PAGE_PATTERNS, call_args)
            \/ MatchesAny(IRRELEVANT_CONTENT_PATTERNS, call_args))

C23_Witness ==
    /\ pc = "quality_returned"
    /\ call_args.length = 200
    /\ call_args.words = <<"page", "Not", "Found">>
    /\ call_ret.low

C23_WitnessAccepted ==
    /\ pc = "quality_returned"
    /\ call_args.length = 200
    /\ call_args.words = <<"page", "found">>
    /\ ~call_ret.low

\* C25: _deep_merge(base, override) returns a dictionary in which a key only
\* in base keeps base's value and a key in override takes override's value,
\* except that two dictionaries under one key are merged by the same rule;
\* lists and sets are replaced, not combined; base and its nested
\* dictionaries are left as they were.
RECURSIVE MergedValue(_, _)
MergedValue(base, override) ==
    [k \in DOMAIN base \cup DOMAIN override |->
        IF k \notin DOMAIN override THEN base[k]
        ELSE IF k \in DOMAIN base /\ base[k].t = "dict" /\ override[k].t = "dict"
        THEN [t |-> "dict", v |-> MergedValue(base[k].v, override[k].v)]
        ELSE override[k]]

C25_DeepMerge ==
    pc = "deep_merge_returned" =>
        /\ DictValue(call_ret.heap, call_ret.ret) =
              MergedValue(DictValue(call_args.heap, call_args.base_dict),
                          DictValue(call_args.heap, call_args.override_dict))
        /\ \A a \in 1..Len(call_args.heap) : call_ret.heap[a] = call_args.heap[a]

C25_Witness ==
    /\ pc = "deep_merge_returned"
    /\ call_args.heap[1] = DictOf(<< <<"query", Plain(1)>>, <<"tags", List(<<1>>)>>,
                                      <<"search", DictAt(2)>> >>)
    /\ call_args.heap[2] = DictOf(<< <<"provider", Plain(1)>>,
                                      <<"max_results", List(<<1>>)>> >>)
    /\ call_args.heap[3] = DictOf(<< <<"tags", List(<<2, 3>>)>>, <<"search", DictAt(4)>> >>)
    /\ call_args.heap[4] = DictOf(<< <<"provider", Plain(2)>> >>)
    /\ DictValue(call_ret.heap, call_ret.ret) =
          DictOf(<< <<"query", Plain(1)>>, <<"tags", List(<<2, 3>>)>>,
                    <<"search", [t |-> "dict",
                                 v |-> DictOf(<< <<"provider", Plain(2)>>,
                                                 <<"max_results", List(<<1>>)>> >>)]>> >>)

\* C24: merge_configurations(c1, ..., cn) gives later configurations priority:
\* every field of the merged configuration has the value the last argument
\* has, a default the last one kept included; the result is a new object, the
\* arguments are left as they were, and without arguments ValueError is
\* raised.
C24_LastConfigurationWins ==
    pc = "merge_configurations_returned" =>
        IF call_args.configs = <<>>
        THEN call_ret.kind = "raise" /\ call_ret.value = "ValueError"
        ELSE /\ call_ret.kind = "return"
             /\ DictValue(call_ret.heap, call_ret.ret) =
                   DictValue(call_args.heap,
                             call_args.configs[Len(call_args.configs)])
             /\ call_ret.ret \notin 1..Len(call_args.heap)
             /\ \A a \in 1..Len(call_args.heap) :
                   call_ret.heap[a] = call_args.heap[a]

C24_Witness ==
    /\ pc = "merge_configurations_returned"
    /\ Len(call_args.configs) = 3
    /\ call_args.heap[3].provider = Plain("anthropic")
    /\ call_args.heap[6].provider = Plain("anthropic")
    /\ call_args.heap[9].provider = Plain("openrouter")
    /\ call_args.heap[2].provider = Plain("brave")
    /\ call_args.heap[8].provider = Plain("all")
    /\ call_ret.kind = "return"
    /\ call_ret.heap[call_ret.heap[call_ret.ret].llm.v].provider = Plain("openrouter")

\* C26: the selection passes over a candidate for the sake of diversity only
\* when two URLs of the candidate's host are selected already; so when it ends
\* with fewer than num_links_to_parse URLs, every candidate that was not
\* selected is of a host that has two selected URLs.
SelectedOfHost(selected, url) ==
    Cardinality({ j \in 1..Len(selected) : HostOf(selected[j]) = HostOf(url) })

C26_SkippedOnlyWhenHostIsFull ==
    (pc = "select_returned" /\ Len(call_ret) < call_args.n) =>
        \A i \in 1..Len(call_args.results) :
           LET url == UrlStr(call_args.results[i])
           IN  url \notin SeqToSet(call_ret) => SelectedOfHost(call_ret, url) >= 2

\* C27: when some adapters fail and at least one succeeds, the run proceeds to
\* the extraction and the failure of each failed adapter is an entry of the
\* errors list of the metadata that the result carries. The adapters' outcomes
\* are gone once run_orchestration has returned, so the entries are looked
\* for in the step that takes its return value.
FailedAdapters ==
    { i \in 1..Len(task_result) : task_result[i].kind \in {"exception", "other"} }

C27_AdapterFailuresRecorded ==
    [][(pc = "search_returned" /\ search_output.kind = "SearchModuleOutput"
          /\ pc' # pc) =>
         /\ pc' = "extract"
         /\ Len(metadata'.errors) >=
               Len(metadata.errors) + Cardinality(FailedAdapters)]_vars

\* C28: every stage transition stores the elapsed time of the stage that is
\* left in the metadata, a transition to failure too: when the run has ended,
\* every stage that was entered has its time in the metadata of the result.
\* The search stage is entered by every run, the extraction stage when URLs
\* were to be fetched, the synthesis and the evaluation when their LLM frame
\* was entered.
SearchEntered     == TRUE
ExtractionEntered == result.metadata.urls_selected > 0
SynthesisEntered  == synth_ret # NoReturn
EvaluationEntered == eval_calls > 0

C28_EveryStageIsTimed ==
    pc = "done" =>
        /\ SearchEntered => result.metadata.search_execution_time = 1
        /\ ExtractionEntered => result.metadata.content_extraction_time = 1
        /\ SynthesisEntered => result.metadata.answer_synthesis_time = 1
        /\ EvaluationEntered => result.metadata.answer_evaluation_time = 1

\* C29: every selected URL yields exactly one outcome, whatever the fetches of
\* the other URLs did: after the extraction the counts of successes, of
\* low-quality texts and of failures add up to urls_selected, each count is
\* the number of URLs whose own fetch had that outcome, and each fetch that
\* raised has one 'Extraction error' entry, for its URL.
FetchRaisedAt(i) == fetch_result[i].kind = "exception"
GoodTextAt(i) == GaveText(i) /\ ~is_low_quality_content(fetch_result[i].content).low
LowTextAt(i)  == GaveText(i) /\ is_low_quality_content(fetch_result[i].content).low
NoTextAt(i)   == ~FetchRaisedAt(i) /\ ~GaveText(i)

Fetched(P(_)) == Cardinality({ i \in 1..Len(fetch_result) : P(i) })

RECURSIVE ExtractionErrorsFrom(_)
ExtractionErrorsFrom(i) ==
    IF i > Len(fetch_result) THEN <<>>
    ELSE (IF FetchRaisedAt(i)
          THEN <<Err("Extraction error for", selected_urls[i])>> ELSE <<>>)
         \o ExtractionErrorsFrom(i + 1)

IsExtractionError(e) == e.msg = "Extraction error for"

C29_OneOutcomePerUrl ==
    /\ StageOf(pc) > 2 =>
          metadata.extraction_success_count + metadata.low_quality_content_count
             + metadata.extraction_failure_count = metadata.urls_selected
    /\ ExtractionEnded =>
          /\ metadata.urls_selected = Len(fetch_result)
          /\ metadata.extraction_success_count = Fetched(GoodTextAt)
          /\ metadata.low_quality_content_count = Fetched(LowTextAt)
          /\ metadata.extraction_failure_count =
                Fetched(FetchRaisedAt) + Fetched(NoTextAt)
          /\ SelectSeq(metadata.errors, IsExtractionError) = ExtractionErrorsFrom(1)

C29_Witness ==
    /\ pc = "synthesize"
    /\ Len(fetch_result) = 2
    /\ FetchRaisedAt(1)
    /\ GoodTextAt(2)
    /\ fetch_completed = <<2, 1>>
    /\ metadata.extraction_failure_count = 1
    /\ metadata.extraction_success_count = 1

\* C30: whenever synthesize_answer is called, source_urls and the contents
\* passed to it have the same length, and the i-th source URL is the URL whose
\* fetch gave the i-th content, in the order the URLs were selected in,
\* whatever the order the fetches completed in.
RECURSIVE UsedFrom(_)
UsedFrom(i) ==
    IF i > Len(fetch_result) THEN <<>>
    ELSE (IF GoodTextAt(i)
          THEN <<[url |-> selected_urls[i], content |-> fetch_result[i].content]>>
          ELSE <<>>)
         \o UsedFrom(i + 1)

C30_SourcesAlignedWithContents ==
    pc = "synthesize" =>
        /\ Len(source_urls) = Len(filtered_contents)
        /\ Len(source_urls) = Len(UsedFrom(1))
        /\ \A i \in 1..Len(source_urls) :
              /\ source_urls[i] = UsedFrom(1)[i].url
              /\ filtered_contents[i] = UsedFrom(1)[i].content

C30_Witness ==
    /\ pc = "synthesize"
    /\ Len(fetch_result) = 2
    /\ ~GaveText(1)
    /\ GoodTextAt(2)
    /\ fetch_completed = <<2, 1>>
    /\ source_urls = <<selected_urls[2]>>

====
